---------------------------- MODULE Spec2Model ----------------------------
(***************************************************************************)
(* Heuristic layout solver of Clusterix (src/heuristic_solver.py): the     *)
(* graph model, the edge-balance weigher, the initial layout builder, the  *)
(* crossing oracle and the local-search optimizer.                         *)
(*                                                                         *)
(* Node ids are the naturals 1..n (their decimal strings "1".."9" compare  *)
(* like the numbers, which is what the tuple sort of barycenter_ordering   *)
(* uses to break ties).  A parent reference of 0 stands for None.          *)
(***************************************************************************)
EXTENDS Integers, Sequences, FiniteSets, TLC

\* Bounds of the enumerated inputs.
MaxNodes == 5
MaxEdges == 2
DenseEdges == 3
OracleNodes == 4
OracleEdges == 2
OracleDenseEdges == 3
MaxRuns == 2

-----------------------------------------------------------------------------
(* Sequence helpers (Python list operations) *)

Range(s) == {s[i] : i \in DOMAIN s}

\* x in list
Contains(s, x) == \E i \in DOMAIN s : s[i] = x

\* a variant that leaves the list as it is
Reverse_same(s) == s

\* list(reversed(s))
Reverse(s) == [i \in 1..Len(s) |-> s[Len(s) + 1 - i]]

\* [x for x in s if x in keep]
RECURSIVE Filter(_, _)
Filter(s, keep) ==
    IF s = <<>> THEN <<>>
    ELSE IF Head(s) \in keep THEN <<Head(s)>> \o Filter(Tail(s), keep)
         ELSE Filter(Tail(s), keep)

\* insert x into the list s, sorted by key, after every element whose key is
\* not greater: the step of a stable sort
RECURSIVE InsertByKey(_, _, _)
InsertByKey(s, x, key) ==
    IF s = <<>> THEN <<x>>
    ELSE IF key[x] < key[Head(s)] THEN <<x>> \o s
         ELSE <<Head(s)>> \o InsertByKey(Tail(s), x, key)

\* sorted(s, key=lambda x: key[x]) : Python's sort is stable
RECURSIVE SortByKey(_, _)
SortByKey(s, key) ==
    IF s = <<>> THEN <<>>
    ELSE InsertByKey(SortByKey(SubSeq(s, 1, Len(s) - 1), key), s[Len(s)], key)

\* all permutations of the list s
Perms(s) ==
    {p \in [1..Len(s) -> Range(s)] : \A i, j \in 1..Len(s) : i # j => p[i] # p[j]}

-----------------------------------------------------------------------------
(* networkx.DiGraph as the solver uses it: nodes in insertion order with    *)
(* their attributes, and per node the successors in insertion order, each   *)
(* edge carrying ONE attribute dictionary (adding an edge that exists       *)
(* updates its "type" in place).                                            *)

EmptyGraph ==
    [nodes |-> <<>>, ntype |-> <<>>, nparent |-> <<>>, adj |-> <<>>, pred |-> <<>>]

\* a node created on the fly (by add_edge) has no attributes
EnsureNode(G, id) ==
    IF Contains(G.nodes, id) THEN G
    ELSE [nodes   |-> Append(G.nodes, id),
          ntype   |-> G.ntype @@ (id :> "none"),
          nparent |-> G.nparent @@ (id :> 0),
          adj     |-> G.adj @@ (id :> <<>>),
          pred    |-> G.pred @@ (id :> <<>>)]

\* G.add_node(node_id, type=node_type, parent=parent_id)
add_node(G, id, t, p) ==
    LET G1 == EnsureNode(G, id)
    IN  [G1 EXCEPT !.ntype[id] = t, !.nparent[id] = p]

\* G.add_edge(u, v, type=t)
add_edge(G, u, v, t) ==
    LET G1 == EnsureNode(EnsureNode(G, u), v)
        old == G1.adj[u]
        new == IF \E k \in DOMAIN old : old[k].to = v
               THEN [k \in DOMAIN old |->
                        IF old[k].to = v THEN [to |-> v, type |-> t] ELSE old[k]]
               ELSE Append(old, [to |-> v, type |-> t])
    IN  [G1 EXCEPT !.adj[u] = new,
                   !.pred[v] = IF Contains(@, u) THEN @ ELSE Append(@, u)]

has_edge(G, u, v) ==
    Contains(G.nodes, u) /\ \E k \in DOMAIN G.adj[u] : G.adj[u][k].to = v

\* G[u][v].get('type')
edge_type(G, u, v) ==
    LET k == CHOOSE k \in DOMAIN G.adj[u] : G.adj[u][k].to = v
    IN  G.adj[u][k].type

\* list(G.edges(data=True)): by source node in node order, then by insertion
RECURSIVE EdgesFrom(_, _)
EdgesFrom(G, ns) ==
    IF ns = <<>> THEN <<>>
    ELSE [k \in DOMAIN G.adj[Head(ns)] |->
             [u |-> Head(ns), v |-> G.adj[Head(ns)][k].to,
              type |-> G.adj[Head(ns)][k].type]]
         \o EdgesFrom(G, Tail(ns))

G_edges(G) == EdgesFrom(G, G.nodes)

-----------------------------------------------------------------------------
(* Loading the JSON form: data = [nodes |-> <<[id, parent, type], ...>>,    *)
(* edges |-> << <<source, target>>, ... >>]                                 *)

\* node_type = "root" if parent_id is None else str(n.get("type", "node"))
node_type(n) == IF n.parent = 0 THEN "root" ELSE n.type

RECURSIVE AddNodes(_, _)
AddNodes(G, ns) ==
    IF ns = <<>> THEN G
    ELSE AddNodes(add_node(G, Head(ns).id, node_type(Head(ns)), Head(ns).parent),
                  Tail(ns))

RECURSIVE AddTopEdges(_, _)
AddTopEdges(G, ns) ==
    IF ns = <<>> THEN G
    ELSE AddTopEdges(IF Head(ns).parent # 0
                     THEN add_edge(G, Head(ns).parent, Head(ns).id, "top")
                     ELSE G,
                     Tail(ns))

RECURSIVE AddBottomEdges(_, _)
AddBottomEdges(G, es) ==
    IF es = <<>> THEN G
    ELSE AddBottomEdges(add_edge(G, Head(es)[1], Head(es)[2], "bottom"), Tail(es))

LoadJson(d) ==
    AddBottomEdges(AddTopEdges(AddNodes(EmptyGraph, d.nodes), d.nodes), d.edges)

\* Reconstruct top edges from node parent attributes: on a graph object the
\* caller supplies, an existing edge from the parent is typed "top", a
\* missing one is added
RECURSIVE ReconstructTop(_, _)
ReconstructTop(G, ns) ==
    IF ns = <<>> THEN G
    ELSE ReconstructTop(IF G.nparent[Head(ns)] # 0
                        THEN add_edge(G, G.nparent[Head(ns)], Head(ns), "top")
                        ELSE G,
                        Tail(ns))

\* the graph the solve works on: built from the JSON form, or the caller's
\* graph object itself (G = graph_input)
load(d) ==
    IF "graph" \in DOMAIN d THEN ReconstructTop(d.graph, d.graph.nodes)
    ELSE LoadJson(d)

-----------------------------------------------------------------------------
(* Edge and children collection.  The graph model M holds the graph and the *)
(* derived maps; ckeys is the key order of the children_map dictionary.     *)

EmptyModel(G) ==
    [G            |-> G,
     top_edges    |-> <<>>,
     bottom_edges |-> <<>>,
     ckeys        |-> <<>>,
     children     |-> [x \in Range(G.nodes) |-> <<>>],
     adjacency    |-> [x \in Range(G.nodes) |-> <<>>]]

\* children_map[u].append(v), creating the key on first use
AddChild(M, u, v) ==
    [M EXCEPT !.ckeys = IF Contains(@, u) THEN @ ELSE Append(@, u),
              !.children[u] = Append(@, v)]

\* adjacency_list[u].append(v); adjacency_list[v].append(u)
AddAdjacent(M, u, v) ==
    LET a1 == [M.adjacency EXCEPT ![u] = Append(@, v)]
    IN  [M EXCEPT !.adjacency = [a1 EXCEPT ![v] = Append(@, u)]]

\* for u, v, edge_data in G.edges(data=True): ...
RECURSIVE CollectEdges(_, _)
CollectEdges(M, es) ==
    IF es = <<>> THEN M
    ELSE LET e == Head(es)
             M1 == IF e.type = "top"
                   THEN AddChild([M EXCEPT !.top_edges = Append(@, <<e.u, e.v>>)],
                                 e.u, e.v)
                   ELSE IF e.type = "bottom"
                   THEN AddAdjacent([M EXCEPT !.bottom_edges = Append(@, <<e.u, e.v>>)],
                                    e.u, e.v)
                   ELSE M
         IN  CollectEdges(M1, Tail(es))

\* Fallback - build top edges from parent attributes if none found
RECURSIVE FallbackTopEdges(_, _)
FallbackTopEdges(M, ns) ==
    IF ns = <<>> THEN M
    ELSE LET n  == Head(ns)
             p  == M.G.nparent[n]
             M1 == IF p # 0 /\ Contains(M.G.nodes, p)
                   THEN LET M2 == AddChild([M EXCEPT !.top_edges = Append(@, <<p, n>>)],
                                           p, n)
                        IN  IF has_edge(M2.G, p, n) THEN M2
                            ELSE [M2 EXCEPT !.G = add_edge(M2.G, p, n, "top")]
                   ELSE M
         IN  FallbackTopEdges(M1, Tail(ns))

\* Ensure every node appears in children_map (with empty list if no children)
EnsureKeys(M) ==
    [M EXCEPT !.ckeys = @ \o Filter(M.G.nodes, Range(M.G.nodes) \ Range(@))]

collect(G) ==
    LET M1 == CollectEdges(EmptyModel(G), G_edges(G))
        M2 == IF M1.top_edges = <<>> THEN FallbackTopEdges(M1, M1.G.nodes) ELSE M1
    IN  EnsureKeys(M2)

\* get_immediate_parent: the first key of children_map whose list holds node
RECURSIVE FirstParent(_, _, _)
FirstParent(M, keys, node) ==
    IF keys = <<>> THEN 0
    ELSE IF Contains(M.children[Head(keys)], node) THEN Head(keys)
         ELSE FirstParent(M, Tail(keys), node)

get_immediate_parent(M, node) == FirstParent(M, M.ckeys, node)

\* ancestors(v): nearest first.  The walk is cut after as many steps as there
\* are nodes (a forest never needs more).
RECURSIVE AncestorWalk(_, _, _)
AncestorWalk(M, p, fuel) ==
    IF p = 0 \/ fuel = 0 THEN <<>>
    ELSE <<p>> \o AncestorWalk(M, get_immediate_parent(M, p), fuel - 1)

ancestors(M, v) == AncestorWalk(M, get_immediate_parent(M, v), Len(M.G.nodes))

\* the while loop of ancestors(v) never ends: after as many parents as there
\* are nodes it has one more
WalkCyclic(M, v) ==
    Len(AncestorWalk(M, get_immediate_parent(M, v), Len(M.G.nodes) + 1))
        = Len(M.G.nodes) + 1

\* the endpoints of the bottom edges in the order the weigher asks for their
\* ancestors
RECURSIVE Endpoints(_)
Endpoints(es) ==
    IF es = <<>> THEN <<>> ELSE <<Head(es)[1], Head(es)[2]>> \o Endpoints(Tail(es))

\* the endpoints on which ancestors() does not return
CyclicEndpoints(M) ==
    LET eps == Endpoints(M.bottom_edges)
    IN  Filter(eps, {v \in Range(eps) : WalkCyclic(M, v)})

\* addLeavesRecursively does not return: the children map has a cycle
ChildrenCyclic(M) == \E x \in Range(M.G.nodes) : WalkCyclic(M, x)

-----------------------------------------------------------------------------
(* Edge-Balance Weigher *)

\* edgeBalance[x] += 1 for every x of the list s
RECURSIVE BumpAll(_, _)
BumpAll(eb, s) ==
    IF s = <<>> THEN eb
    ELSE BumpAll([eb EXCEPT ![Head(s)] = @ + 1], Tail(s))

\* length of the common suffix of two ancestor lists (the part from the root
\* down that both share)
RECURSIVE CommonSuffix(_, _)
CommonSuffix(a, b) ==
    IF a = <<>> \/ b = <<>> THEN 0
    ELSE IF a[Len(a)] = b[Len(b)]
         THEN 1 + CommonSuffix(SubSeq(a, 1, Len(a) - 1), SubSeq(b, 1, Len(b) - 1))
         ELSE 0

\* the body of "for u, v in bottom_edges"
weigh_edge(M, eb, u, v) ==
    LET eb1 == [[eb EXCEPT ![u] = @ + 1] EXCEPT ![v] = @ + 1]
        au  == ancestors(M, u)
        av  == ancestors(M, v)
        c   == CommonSuffix(au, av)
    IN  BumpAll(BumpAll(eb1, SubSeq(au, 1, Len(au) - c)), SubSeq(av, 1, Len(av) - c))

RECURSIVE WeighEdges(_, _, _)
WeighEdges(M, eb, es) ==
    IF es = <<>> THEN eb
    ELSE WeighEdges(M, weigh_edge(M, eb, Head(es)[1], Head(es)[2]), Tail(es))

weigh(M) == WeighEdges(M, [x \in Range(M.G.nodes) |-> 0], M.bottom_edges)

-----------------------------------------------------------------------------
(* Descendant and leaf lists (addLeavesRecursively), in preorder *)

RECURSIVE DescList(_, _)
RECURSIVE DescOfAll(_, _)
DescList(M, node) ==
    <<node>> \o (IF M.children[node] = <<>> THEN <<>>
                 ELSE DescOfAll(M, M.children[node]))
DescOfAll(M, cs) ==
    IF cs = <<>> THEN <<>> ELSE DescList(M, Head(cs)) \o DescOfAll(M, Tail(cs))

RECURSIVE LeafList(_, _)
RECURSIVE LeavesOfAll(_, _)
LeafList(M, node) ==
    IF M.children[node] = <<>> THEN <<node>> ELSE LeavesOfAll(M, M.children[node])
LeavesOfAll(M, cs) ==
    IF cs = <<>> THEN <<>> ELSE LeafList(M, Head(cs)) \o LeavesOfAll(M, Tail(cs))

DescendantMap(M) == [x \in Range(M.G.nodes) |-> DescList(M, x)]
LeafMap(M) == [x \in Range(M.G.nodes) |-> LeafList(M, x)]

-----------------------------------------------------------------------------
(* Initial Layout Builder (build_cluster_order).  A traversal state is      *)
(* [order, visited, eb]: the output list, the visited set and the           *)
(* edge-balance table the traversal mutates.                                *)

\* for other in adjacency_list[node]: if other not in visited:
\*     edgeBalance[other] -= 2, and again -= 2 once per ancestor of node
RECURSIVE discount_neighbours(_, _, _, _)
discount_neighbours(eb, visited, others, depth) ==
    IF others = <<>> THEN eb
    ELSE discount_neighbours(
            IF Head(others) \in visited THEN eb
            ELSE [eb EXCEPT ![Head(others)] = @ - 2 - 2 * depth],
            visited, Tail(others), depth)

RECURSIVE dfs_cluster(_, _, _)
RECURSIVE dfs_each(_, _, _)
dfs_cluster(M, S, node) ==
    IF node \in S.visited THEN S
    ELSE LET S1 == [S EXCEPT !.visited = @ \cup {node}, !.order = Append(@, node)]
             S2 == [S1 EXCEPT !.eb = discount_neighbours(@, S1.visited,
                                        M.adjacency[node], Len(ancestors(M, node)))]
             \* the children are sorted once, when their parent is visited
             children == SortByKey(M.children[node], S2.eb)
         IN  dfs_each(M, S2, children)
dfs_each(M, S, ns) ==
    IF ns = <<>> THEN S ELSE dfs_each(M, dfs_cluster(M, S, Head(ns)), Tail(ns))

\* Add any unvisited nodes
RECURSIVE add_unvisited(_, _)
add_unvisited(S, ns) ==
    IF ns = <<>> THEN S
    ELSE add_unvisited(
            IF Head(ns) \in S.visited THEN S
            ELSE [S EXCEPT !.visited = @ \cup {Head(ns)}, !.order = Append(@, Head(ns))],
            Tail(ns))

\* the traversal state build_cluster_order ends in
build_cluster_order(M, eb) ==
    LET root_nodes == SortByKey(Filter(M.G.nodes,
                                       {n \in Range(M.G.nodes) : M.G.nparent[n] = 0}), eb)
        S0 == [order |-> <<>>, visited |-> {}, eb |-> eb]
        S1 == dfs_each(M, S0, root_nodes)
    IN  add_unvisited(S1, SortByKey(M.G.nodes, S1.eb))

-----------------------------------------------------------------------------
(* Crossing Oracle *)

\* node_to_pos[node]: the (0-based) index of node; a later occurrence
\* overwrites an earlier one
node_to_pos(layout, node) ==
    (CHOOSE i \in DOMAIN layout :
        layout[i] = node /\ \A j \in DOMAIN layout : layout[j] = node => j <= i) - 1

\* a variant that takes the first endpoint as the left one, unsorted
Min2_unsorted(a, b) == a

Min2(a, b) == IF a <= b THEN a ELSE b
Max2(a, b) == IF a >= b THEN a ELSE b

\* a variant with non-strict comparisons
interleaved_weak(left1, right1, left2, right2) ==
    \/ (left1 <= left2 /\ left2 <= right1 /\ right1 <= right2)
    \/ (left2 <= left1 /\ left1 <= right2 /\ right2 <= right1)

\* left1 < left2 < right1 < right2 or left2 < left1 < right2 < right1
interleaved(left1, right1, left2, right2) ==
    \/ (left1 < left2 /\ left2 < right1 /\ right1 < right2)
    \/ (left2 < left1 /\ left1 < right2 /\ right2 < right1)

\* the test of one pair of edges: endpoint positions sorted, then compared
edges_cross(layout, e1, e2) ==
    LET pu1 == node_to_pos(layout, e1[1])
        pv1 == node_to_pos(layout, e1[2])
        pu2 == node_to_pos(layout, e2[1])
        pv2 == node_to_pos(layout, e2[2])
    IN  interleaved(Min2(pu1, pv1), Max2(pu1, pv1), Min2(pu2, pv2), Max2(pu2, pv2))

\* for j in range(j, len(edges)): crossings += 1 if edges i and j cross
RECURSIVE count_inner(_, _, _, _)
count_inner(layout, edges, i, j) ==
    IF j > Len(edges) THEN 0
    ELSE (IF edges_cross(layout, edges[i], edges[j]) THEN 1 ELSE 0)
         + count_inner(layout, edges, i, j + 1)

\* for i in range(i, len(edges)): for j in range(i + 1, len(edges)): ...
RECURSIVE count_outer(_, _, _)
count_outer(layout, edges, i) ==
    IF i > Len(edges) THEN 0
    ELSE count_inner(layout, edges, i, i + 1) + count_outer(layout, edges, i + 1)

\* the double loop over the pairs of considered edges
count_pairs(layout, edges) == count_outer(layout, edges, 1)

\* [(u, v) for (u, v) in edges if u in node_to_pos and v in node_to_pos]
RECURSIVE edges_in_layout(_, _)
edges_in_layout(layout, edges) ==
    IF edges = <<>> THEN <<>>
    ELSE IF Contains(layout, Head(edges)[1]) /\ Contains(layout, Head(edges)[2])
         THEN <<Head(edges)>> \o edges_in_layout(layout, Tail(edges))
         ELSE edges_in_layout(layout, Tail(edges))

count_all_crossings(layout, edges_list) ==
    IF layout = <<>> \/ edges_list = <<>> THEN 0
    ELSE count_pairs(layout, edges_in_layout(layout, edges_list))

verify_top_page_planarity(M, layout) == count_all_crossings(layout, M.top_edges) = 0

\* [u for u in G.predecessors(node) if G[u][node].get('type') == 'top']
RECURSIVE top_parents(_, _, _)
top_parents(G, node, ps) ==
    IF ps = <<>> THEN <<>>
    ELSE IF edge_type(G, Head(ps), node) = "top"
         THEN <<Head(ps)>> \o top_parents(G, node, Tail(ps))
         ELSE top_parents(G, node, Tail(ps))

\* while current and type(current) != 'cluster': current = first top parent
RECURSIVE cluster_walk(_, _, _)
cluster_walk(G, current, fuel) ==
    IF current = 0 \/ fuel = 0 THEN 0
    ELSE IF G.ntype[current] = "cluster" THEN current
    ELSE LET gp == top_parents(G, current, G.pred[current])
         IN  cluster_walk(G, IF gp = <<>> THEN 0 ELSE gp[1], fuel - 1)

\* node_to_cluster.get(node, node)
node_to_cluster(G, node) ==
    IF G.ntype[node] = "cluster" THEN node
    ELSE IF G.ntype[node] = "leaf"
    THEN LET parents == top_parents(G, node, G.pred[node])
         IN  IF parents = <<>> THEN node
             ELSE IF G.ntype[parents[1]] = "cluster" THEN parents[1]
             ELSE LET current == cluster_walk(G, parents[1], Len(G.nodes))
                  IN  IF current # 0 THEN current ELSE node
    ELSE node

\* the bottom edges in the layout whose endpoints lie in different clusters
RECURSIVE visible_edges(_, _, _)
visible_edges(M, layout, edges) ==
    IF edges = <<>> THEN <<>>
    ELSE LET u == Head(edges)[1]
             v == Head(edges)[2]
         IN  IF /\ Contains(layout, u) /\ Contains(layout, v)
                /\ node_to_cluster(M.G, u) # node_to_cluster(M.G, v)
             THEN <<Head(edges)>> \o visible_edges(M, layout, Tail(edges))
             ELSE visible_edges(M, layout, Tail(edges))

\* returns all_crossings, visible_crossings and the two edge counts
count_crossings_like_ilp(M, layout) ==
    IF layout = <<>>
    THEN [all |-> 0, visible |-> 0, all_count |-> 0, visible_count |-> 0]
    ELSE LET all_pairs == edges_in_layout(layout, M.bottom_edges)
             vis_list  == visible_edges(M, layout, M.bottom_edges)
         IN  [all           |-> count_pairs(layout, all_pairs),
              visible       |-> count_pairs(layout, vis_list),
              all_count     |-> Len(all_pairs),
              visible_count |-> Len(vis_list)]

-----------------------------------------------------------------------------
(* Local-Search Optimizer: the candidate moves *)

\* sum of node_positions[v] for v in the list vs
RECURSIVE sum_positions(_, _)
sum_positions(layout, vs) ==
    IF vs = <<>> THEN 0
    ELSE node_to_pos(layout, Head(vs)) + sum_positions(layout, Tail(vs))

\* total and count over the leaves of one sibling
RECURSIVE leaf_totals(_, _, _)
leaf_totals(M, layout, leaves) ==
    IF leaves = <<>> THEN [total |-> 0, count |-> 0]
    ELSE LET rest == leaf_totals(M, layout, Tail(leaves))
             adj  == M.adjacency[Head(leaves)]
         IN  [total |-> sum_positions(layout, adj) + rest.total,
              count |-> Len(adj) + rest.count]

\* (avg_pos, child) as the fraction num / den
barycenter(M, lmap, layout, child) ==
    LET t == leaf_totals(M, layout, lmap[child])
    IN  IF t.count > 0 THEN [num |-> t.total, den |-> t.count, child |-> child]
        ELSE [num |-> node_to_pos(layout, child), den |-> 1, child |-> child]

\* tuple comparison (avg_pos, child) < (avg_pos, child)
bary_less(a, b) ==
    \/ a.num * b.den < b.num * a.den
    \/ (a.num * b.den = b.num * a.den /\ a.child < b.child)

RECURSIVE bary_insert(_, _)
bary_insert(s, x) ==
    IF s = <<>> THEN <<x>>
    ELSE IF bary_less(x, Head(s)) THEN <<x>> \o s
         ELSE <<Head(s)>> \o bary_insert(Tail(s), x)

RECURSIVE bary_sort(_)
bary_sort(s) ==
    IF s = <<>> THEN <<>>
    ELSE bary_insert(bary_sort(SubSeq(s, 1, Len(s) - 1)), s[Len(s)])

barycenter_ordering(M, lmap, siblings, current_layout) ==
    LET barycenters == bary_sort([k \in DOMAIN siblings |->
                                     barycenter(M, lmap, current_layout, siblings[k])])
    IN  [k \in DOMAIN barycenters |-> barycenters[k].child]

\* the union of the siblings' descendant lists
RECURSIVE descendant_set(_, _)
descendant_set(dmap, siblings) ==
    IF siblings = <<>> THEN {}
    ELSE Range(dmap[Head(siblings)]) \cup descendant_set(dmap, Tail(siblings))

\* the scan of apply_sibling_order from index i (0-based) with k siblings
\* already taken from the iterator; ok = FALSE is next() raising StopIteration
RECURSIVE apply_scan(_, _, _, _, _, _, _)
apply_scan(dmap, current_layout, dset, new_order, i, k, new_layout) ==
    IF i >= Len(current_layout) THEN [ok |-> TRUE, layout |-> new_layout]
    ELSE IF current_layout[i + 1] \in dset
    THEN IF k >= Len(new_order) THEN [ok |-> FALSE, layout |-> new_layout]
         ELSE LET block == Filter(current_layout, Range(dmap[new_order[k + 1]]))
              IN  apply_scan(dmap, current_layout, dset, new_order,
                             i + Len(block), k + 1, new_layout \o block)
    ELSE apply_scan(dmap, current_layout, dset, new_order,
                    i + 1, k, Append(new_layout, current_layout[i + 1]))

\* a variant that loses the nodes outside the group (the else branch of the
\* scan not copying them)
RECURSIVE apply_scan_drop(_, _, _, _, _, _, _)
apply_scan_drop(dmap, current_layout, dset, new_order, i, k, new_layout) ==
    IF i >= Len(current_layout) THEN [ok |-> TRUE, layout |-> new_layout]
    ELSE IF current_layout[i + 1] \in dset
    THEN IF k >= Len(new_order) THEN [ok |-> FALSE, layout |-> new_layout]
         ELSE LET block == Filter(current_layout, Range(dmap[new_order[k + 1]]))
              IN  apply_scan_drop(dmap, current_layout, dset, new_order,
                                  i + Len(block), k + 1, new_layout \o block)
    ELSE apply_scan_drop(dmap, current_layout, dset, new_order, i + 1, k, new_layout)

apply_sibling_order_drop(dmap, current_layout, siblings, new_order) ==
    apply_scan_drop(dmap, current_layout, descendant_set(dmap, siblings), new_order,
                    0, 0, <<>>)

apply_sibling_order(dmap, current_layout, siblings, new_order) ==
    apply_scan(dmap, current_layout, descendant_set(dmap, siblings), new_order,
               0, 0, <<>>)

isTheSameOrder(list1, list2) ==
    /\ Len(list1) = Len(list2)
    /\ \A i \in 1..Len(list1) : list1[i] = list2[i]

\* a variant with the comparison of the visible counts inverted
improves_visible_inverted(new_visible, new_all, cur_visible, cur_all) ==
    \/ new_visible > cur_visible
    \/ (new_visible = cur_visible /\ new_all < cur_all)

\* a variant with the comparisons inverted
improves_inverted(new_visible, new_all, cur_visible, cur_all) ==
    \/ new_visible > cur_visible
    \/ (new_visible = cur_visible /\ new_all > cur_all)

\* a variant that also accepts a candidate with equal counts
improves_not_strict(new_visible, new_all, cur_visible, cur_all) ==
    \/ new_visible < cur_visible
    \/ (new_visible = cur_visible /\ new_all <= cur_all)

\* the acceptance test: visible first, all second
improves(new_visible, new_all, cur_visible, cur_all) ==
    \/ new_visible < cur_visible
    \/ (new_visible = cur_visible /\ new_all < cur_all)

\* sibling_groups: the keys of children_map with more than one child
sibling_groups(M) ==
    Filter(M.ckeys, {q \in Range(M.ckeys) : Len(M.children[q]) > 1})

max_iterations == 3
random_tries == 5
max_random_group == 6

-----------------------------------------------------------------------------
(* The inputs: every forest on MaxNodes nodes whose parents are declared    *)
(* before their children, typed either as a clustering (a node with         *)
(* children is a cluster, a childless one a leaf) or with the default type  *)
(* "node", and every list of at most MaxEdges distinct bottom edges over    *)
(* the declared nodes (self-loops and parent-to-child edges included).      *)

ParentMaps(n) == {p \in [1..n -> 0..(n - 1)] : \A i \in 1..n : p[i] < i}

TypeSchemes == {"clustered", "generic"}

\* "nested" types the children of the roots as clusters and everything below
\* them as leaves, so that a leaf can lie under another leaf
TypeOf(n, p, scheme, i) ==
    IF scheme = "generic" THEN "node"
    ELSE IF scheme = "nested"
    THEN IF p[i] # 0 /\ p[p[i]] = 0 THEN "cluster" ELSE "leaf"
    ELSE IF \E j \in 1..n : p[j] = i THEN "cluster" ELSE "leaf"

\* the declared edges, listed in increasing (source, target) order
EdgeBefore(e, f) == e[1] < f[1] \/ (e[1] = f[1] /\ e[2] < f[2])

EdgeLists(n) ==
    {es \in UNION {[1..k -> (1..n) \X (1..n)] : k \in 0..MaxEdges} :
        \A i \in 1..(Len(es) - 1) : EdgeBefore(es[i], es[i + 1])}

MakeData(n, p, scheme, es) ==
    [nodes |-> [i \in 1..n |-> [id |-> i, parent |-> p[i],
                                type |-> TypeOf(n, p, scheme, i)]],
     edges |-> es]

SparseInputs ==
    {MakeData(MaxNodes, p, sc, es) :
        p \in ParentMaps(MaxNodes), sc \in TypeSchemes, es \in EdgeLists(MaxNodes)}

\* The hierarchies with sibling groups to reorder, as clusterings, with every
\* list of exactly DenseEdges distinct bottom edges between different nodes:
\* enough edges for a move to trade one crossing against another.
DenseShapes ==
    {<<0, 1, 1, 1, 1>>, <<0, 1, 1, 2, 2>>, <<0, 1, 2, 2, 2>>, <<0, 1, 1, 1, 2>>,
     <<0, 0, 1, 1, 2>>}

DenseEdgeLists(n) ==
    {es \in [1..DenseEdges -> {e \in (1..n) \X (1..n) : e[1] # e[2]}] :
        \A i \in 1..(Len(es) - 1) : EdgeBefore(es[i], es[i + 1])}

DenseInputs ==
    UNION {{MakeData(Len(p), p, "clustered", es) : es \in DenseEdgeLists(Len(p))} :
              p \in DenseShapes}

\* a larger clustering on which three rounds in a row can improve
RoundCapInputs ==
    {[nodes |-> [i \in 1..6 |->
                   [id |-> i, parent |-> <<0, 1, 1, 3, 1, 2>>[i],
                    type |-> IF i \in {1, 2, 3} THEN "cluster" ELSE "leaf"]],
      edges |-> << <<1, 6>>, <<3, 5>>, <<4, 2>>, <<6, 3>> >>]}

\* a hierarchy with the bottom edge 1 -> 2 from a parent to its child, on
\* which a move runs out of siblings: after an accepted move with the first
\* edge list, at the first candidate with the second
RaisingInputs ==
    {MakeData(5, <<0, 1, 2, 2, 4>>, "generic", es) :
        es \in {<< <<1, 2>>, <<3, 2>>, <<5, 1>>, <<5, 4>> >>,
                << <<1, 2>>, <<4, 1>>, <<5, 2>>, <<5, 4>> >>}}

Inputs == SparseInputs \cup DenseInputs \cup RoundCapInputs \cup RaisingInputs

-----------------------------------------------------------------------------
(* One solve as a state machine *)

VARIABLES
    data,                       \* the input (graph_input, loaded)
    pc,                         \* the position in solve_layout_for_graph_heuristic
    status,                     \* results['status']
    M,                          \* G, top_edges, bottom_edges, children_map, adjacency_list
    edgeBalance,
    descendant_map,
    leaf_map,
    initial_layout,
    initial_all_crossings,
    initial_visible_crossings,
    current_layout,
    current_all_crossings,
    current_visible_crossings,
    improved,
    iteration,
    gi,                         \* index of the sibling group being visited
    best_random_layout,
    best_random_all,
    best_random_visible,
    tries,                      \* random permutations drawn for this group
    final_layout,               \* the returned layout
    final_all_crossings,
    final_visible_crossings,
    visits,                     \* history: the groups visited in this round
    accepts,                    \* history: the moves accepted in this round
    tried,                      \* history: the candidates tried in this visit
    runs,                       \* optimizer runs on its own output so far
    given_layout,               \* the layout handed to the crossing oracle
    given_edges,                \* the edge list handed to the crossing oracle
    counted,                    \* what the crossing oracle returned
    seed,                       \* the seed the caller gave the generator, 0 if none
    rng,                        \* the state of the seeded generator, 0 if unseeded
    first,                      \* what the first of two seeded solves returned
    walk,                       \* the parents list of an ancestors() call that does not end
    saved,                      \* the rows _save_results has appended to output_csv (their status)
    server                      \* the web server: its files, its last request and response

inputVars == <<data>>
modelVars == <<M, descendant_map, leaf_map>>
initVars  == <<initial_layout, initial_all_crossings, initial_visible_crossings>>
curVars   == <<current_layout, current_all_crossings, current_visible_crossings>>
loopVars  == <<improved, iteration, gi>>
randVars  == <<best_random_layout, best_random_all, best_random_visible, tries>>
finalVars == <<final_layout, final_all_crossings, final_visible_crossings>>
histVars  == <<visits, accepts, tried>>
oracleVars == <<given_layout, given_edges, counted>>
seedVars == <<seed, first>>

vars == <<inputVars, walk, server, saved, oracleVars, seedVars, rng, runs, pc, status, modelVars, edgeBalance, initVars, curVars,
          loopVars, randVars, finalVars, histVars>>

(* The module-level generator random.sample draws from.  Unseeded (state 0) *)
(* it may return any permutation.  Seeded, its state decides the            *)
(* permutation and moves on with every draw; the states are the numbers     *)
(* 1..RngStates and a seed is one of them.                                  *)

RngStates == 61
MaxSeed == 2

\* random.seed(s): the generator is put into the state the seed names
Reseed(s) == s

\* the state after a draw
Advance(g) == ((g * 7 + 3) % RngStates) + 1

\* the list s without its i-th element
Remove(s, i) == SubSeq(s, 1, i - 1) \o SubSeq(s, i + 1, Len(s))

\* the permutation of the list s that the number k picks, element by element
RECURSIVE PermAt(_, _)
PermAt(s, k) ==
    IF s = <<>> THEN <<>>
    ELSE LET i == (k % Len(s)) + 1
         IN  <<s[i]>> \o PermAt(Remove(s, i), k \div Len(s))

\* a variant whose draws the seed does not reset: after a first solve they
\* differ from those of the first
random_sample_stale(g, population) ==
    IF g = 0 THEN Perms(population) ELSE {PermAt(population, g + 5 * Len(first))}

\* random.sample(population, len(population)) in generator state g: the
\* orders it can return
random_sample(g, population) ==
    IF g = 0 THEN Perms(population) ELSE {PermAt(population, g)}

NotCounted == [crossings |-> 0, all |-> 0, visible |-> 0, all_count |-> 0,
               visible_count |-> 0]

\* no web server is part of the run
NoServer == [graphs |-> {}, orders |-> {}, index |-> <<>>, written |-> FALSE,
             request |-> <<>>, response |-> <<>>]

\* the solve has not begun
SolveBlank ==
    /\ status = "SUCCESS"
    /\ edgeBalance = <<>>
    /\ descendant_map = <<>>
    /\ leaf_map = <<>>
    /\ initial_layout = <<>>
    /\ initial_all_crossings = 0
    /\ initial_visible_crossings = 0
    /\ current_layout = <<>>
    /\ current_all_crossings = 0
    /\ current_visible_crossings = 0
    /\ improved = FALSE
    /\ iteration = 0
    /\ gi = 0
    /\ best_random_layout = <<>>
    /\ best_random_all = 0
    /\ best_random_visible = 0
    /\ tries = 0
    /\ final_layout = <<>>
    /\ final_all_crossings = 0
    /\ final_visible_crossings = 0
    /\ visits = <<>>
    /\ accepts = 0
    /\ tried = <<>>
    /\ runs = 0
    /\ walk = <<>>
    /\ saved = <<>>
    /\ server = NoServer

\* the caller has not seeded the generator
Unseeded == seed = 0 /\ rng = 0 /\ first = <<>>

InitWith(d) ==
    /\ data = d
    /\ pc = "load"
    /\ M = EmptyModel(EmptyGraph)
    /\ SolveBlank
    /\ given_layout = <<>>
    /\ given_edges = <<>>
    /\ counted = NotCounted
    /\ Unseeded

Init == \E d \in Inputs : InitWith(d)

\* the input is a path to a file holding JSON (its content, the nodes and
\* edges, is the input record) or a graph object
Loadable(d) == "nodes" \in DOMAIN d \/ "graph" \in DOMAIN d

\* lines 31-139: the graph, then the edge lists and the children map
BuildGraphModel ==
    /\ pc = "load"
    /\ Loadable(data)
    /\ M' = collect(load(data))
    /\ pc' = "weigh"
    /\ UNCHANGED <<inputVars, walk, server, saved, oracleVars, seedVars, rng, runs, status, descendant_map, leaf_map, edgeBalance, initVars,
                   curVars, loopVars, randVars, finalVars, histVars>>

\* lines 141-191: the edge balance, then the descendant and leaf lists
Weigh ==
    /\ pc = "weigh"
    /\ CyclicEndpoints(M) = <<>>
    /\ ~ChildrenCyclic(M)
    /\ edgeBalance' = weigh(M)
    /\ descendant_map' = DescendantMap(M)
    /\ leaf_map' = LeafMap(M)
    /\ pc' = "layout"
    /\ UNCHANGED <<inputVars, walk, server, saved, oracleVars, seedVars, rng, runs, status, M, initVars, curVars, loopVars, randVars, finalVars, histVars>>

\* line 548: initial_layout = build_cluster_order()
BuildLayout ==
    /\ pc = "layout"
    /\ LET S == build_cluster_order(M, edgeBalance)
       IN  /\ initial_layout' = S.order
           /\ edgeBalance' = S.eb
    /\ initial_all_crossings' = initial_all_crossings
    /\ initial_visible_crossings' = initial_visible_crossings
    /\ pc' = "count"
    /\ UNCHANGED <<inputVars, walk, server, saved, oracleVars, seedVars, rng, runs, status, modelVars, curVars, loopVars, randVars, finalVars, histVars>>

\* line 552: the baseline counts
CountInitial ==
    /\ pc = "count"
    /\ LET c == count_crossings_like_ilp(M, initial_layout)
       IN  /\ initial_all_crossings' = c.all
           /\ initial_visible_crossings' = c.visible
    /\ initial_layout' = initial_layout
    /\ pc' = "optimize"
    /\ UNCHANGED <<inputVars, walk, server, saved, oracleVars, seedVars, rng, runs, status, modelVars, edgeBalance, curVars, loopVars,
                   randVars, finalVars, histVars>>

\* _save_results(results, output_csv) (lines 519-541, called at lines 573 and
\* 581): a solve that returns appends its row; a further run of the optimizer
\* alone appends none
Saves ==
    saved' = IF pc' = "done" /\ runs = 0 THEN Append(saved, status') ELSE saved

\* lines 422-430: nothing to do when both counts are 0
OptReturnEarly ==
    /\ pc = "optimize"
    /\ initial_all_crossings = 0 /\ initial_visible_crossings = 0
    /\ current_layout' = initial_layout
    /\ current_all_crossings' = initial_all_crossings
    /\ current_visible_crossings' = initial_visible_crossings
    /\ final_layout' = initial_layout
    /\ final_all_crossings' = initial_all_crossings
    /\ final_visible_crossings' = initial_visible_crossings
    /\ pc' = "done"
    /\ UNCHANGED <<inputVars, walk, server, oracleVars, seedVars, rng, runs, status, modelVars, edgeBalance, initVars, loopVars,
                   randVars, histVars>>
    /\ Saves

\* lines 422-442
OptStart ==
    /\ pc = "optimize"
    /\ ~(initial_all_crossings = 0 /\ initial_visible_crossings = 0)
    /\ current_layout' = initial_layout
    /\ current_all_crossings' = initial_all_crossings
    /\ current_visible_crossings' = initial_visible_crossings
    /\ improved' = TRUE
    /\ iteration' = 0
    /\ gi' = 0
    /\ pc' = "while"
    /\ UNCHANGED <<inputVars, walk, server, saved, oracleVars, seedVars, rng, runs, status, modelVars, edgeBalance, initVars, randVars, finalVars, histVars>>

\* line 444-446: the loop test holds, a round begins
RoundStart ==
    /\ pc = "while"
    /\ improved /\ iteration < max_iterations
    /\ improved' = FALSE
    /\ iteration' = iteration + 1
    /\ gi' = 1
    /\ visits' = <<>>
    /\ accepts' = 0
    /\ tried' = <<>>
    /\ pc' = "group"
    /\ UNCHANGED <<inputVars, walk, server, saved, oracleVars, seedVars, rng, runs, status, modelVars, edgeBalance, initVars, curVars,
                   randVars, finalVars>>

\* lines 509-517: the loop test fails, the optimizer returns
OptFinish ==
    /\ pc = "while"
    /\ ~(improved /\ iteration < max_iterations)
    /\ LET c == count_crossings_like_ilp(M, current_layout)
       IN  /\ final_all_crossings' = c.all
           /\ final_visible_crossings' = c.visible
    /\ final_layout' = current_layout
    /\ pc' = "done"
    /\ UNCHANGED <<inputVars, walk, server, oracleVars, seedVars, rng, runs, status, modelVars, edgeBalance, initVars, curVars,
                   loopVars, randVars, histVars>>
    /\ Saves

\* sibling_groups in the order the round visits them, and the group at gi
Groups == sibling_groups(M)
Siblings == M.children[Groups[gi]]

\* current_order = [node for node in current_layout if node in siblings]
current_order == Filter(current_layout, Range(Siblings))

\* what no step of a group visit changes
VisitFrame ==
    UNCHANGED <<inputVars, walk, server, oracleVars, seedVars, runs, modelVars, edgeBalance, initVars, iteration,
                final_all_crossings, final_visible_crossings, visits>>

\* an exception inside the try block (lines 578-585): PROCESSING_ERROR, return []
Raise ==
    /\ status' = "PROCESSING_ERROR"
    /\ final_layout' = <<>>
    /\ pc' = "done"
    /\ UNCHANGED <<curVars, improved, gi, accepts>>

\* current_layout = layout, with its counts; improved = True
Accept(layout, all, visible) ==
    /\ current_layout' = layout
    /\ current_all_crossings' = all
    /\ current_visible_crossings' = visible
    /\ improved' = TRUE
    /\ accepts' = accepts + 1

\* a variant in which an accepted candidate does not end the visit
TryMove_goes_on(new_order, next_pc) ==
    LET r == apply_sibling_order(descendant_map, current_layout, Siblings, new_order)
    IN  IF ~r.ok THEN Raise
        ELSE LET c == count_crossings_like_ilp(M, r.layout)
             IN  /\ UNCHANGED <<status, final_layout>>
                 /\ pc' = next_pc
                 /\ gi' = gi
                 /\ IF improves(c.visible, c.all,
                                current_visible_crossings, current_all_crossings)
                    THEN Accept(r.layout, c.all, c.visible)
                    ELSE UNCHANGED <<curVars, improved, accepts>>

\* a candidate order is applied and counted (lines 454-464 and 469-478):
\* accepted, the visit ends ("continue"); rejected, the visit goes on at next_pc
TryMove(new_order, next_pc) ==
    LET r == apply_sibling_order(descendant_map, current_layout, Siblings, new_order)
    IN  IF ~r.ok THEN Raise
        ELSE LET c == count_crossings_like_ilp(M, r.layout)
             IN  /\ UNCHANGED <<status, final_layout>>
                 /\ IF improves(c.visible, c.all,
                                current_visible_crossings, current_all_crossings)
                    THEN /\ Accept(r.layout, c.all, c.visible)
                         /\ gi' = gi + 1
                         /\ pc' = "group"
                    ELSE /\ pc' = next_pc
                         /\ UNCHANGED <<curVars, improved, gi, accepts>>

\* lines 448-464: a group's visit begins with the barycenter order
TryBarycenter ==
    /\ pc = "group"
    /\ gi <= Len(Groups)
    /\ visits' = Append(visits, Groups[gi])
    /\ LET new_order == barycenter_ordering(M, leaf_map, Siblings, current_layout)
       IN  IF isTheSameOrder(new_order, current_order)
           THEN /\ pc' = "reverse"
                /\ tried' = <<>>
                /\ UNCHANGED <<status, curVars, improved, gi, final_layout, accepts>>
           ELSE /\ TryMove(new_order, "reverse")
                /\ tried' = <<"barycenter">>
    /\ UNCHANGED <<inputVars, walk, server, oracleVars, seedVars, rng, runs, modelVars, edgeBalance, initVars, iteration,
                   final_all_crossings, final_visible_crossings, randVars>>
    /\ Saves

\* lines 466-478: the reversed order
TryReverse ==
    /\ pc = "reverse"
    /\ LET reverse_order == Reverse(current_order)
       IN  IF isTheSameOrder(reverse_order, current_order)
           THEN /\ pc' = "random_init"
                /\ tried' = tried
                /\ UNCHANGED <<status, curVars, improved, gi, final_layout, accepts>>
           ELSE /\ TryMove(reverse_order, "random_init")
                /\ tried' = Append(tried, "reverse")
    /\ VisitFrame
    /\ UNCHANGED <<randVars, rng>>
    /\ Saves

\* lines 481-484: random permutations are for groups of at most 6
EnterRandom ==
    /\ pc = "random_init"
    /\ IF Len(Siblings) <= max_random_group
       THEN /\ best_random_layout' = current_layout
            /\ best_random_all' = current_all_crossings
            /\ best_random_visible' = current_visible_crossings
            /\ tries' = 0
            /\ pc' = "random"
            /\ gi' = gi
       ELSE /\ gi' = gi + 1
            /\ pc' = "group"
            /\ UNCHANGED randVars
    /\ VisitFrame
    /\ tried' = IF Len(Siblings) <= max_random_group THEN Append(tried, "random")
                ELSE tried
    /\ UNCHANGED <<status, curVars, improved, final_layout, accepts, rng>>
    /\ Saves

\* lines 486-496: one of the 5 random permutations; any permutation of the
\* current order may be drawn
RandomSample ==
    /\ pc = "random"
    /\ tries < random_tries
    /\ \E random_order \in random_sample(rng, current_order) :
         IF isTheSameOrder(random_order, current_order)
         THEN /\ pc' = pc
              /\ UNCHANGED <<status, final_layout, best_random_layout,
                             best_random_all, best_random_visible>>
         ELSE LET r == apply_sibling_order(descendant_map, current_layout, Siblings,
                                           random_order)
              IN  IF ~r.ok
                  THEN /\ status' = "PROCESSING_ERROR"
                       /\ final_layout' = <<>>
                       /\ pc' = "done"
                       /\ UNCHANGED <<best_random_layout, best_random_all,
                                      best_random_visible>>
                  ELSE LET c == count_crossings_like_ilp(M, r.layout)
                       IN  /\ pc' = pc
                           /\ UNCHANGED <<status, final_layout>>
                           /\ IF improves(c.visible, c.all,
                                          best_random_visible, best_random_all)
                              THEN /\ best_random_layout' = r.layout
                                   /\ best_random_all' = c.all
                                   /\ best_random_visible' = c.visible
                              ELSE UNCHANGED <<best_random_layout, best_random_all,
                                               best_random_visible>>
    /\ tries' = tries + 1
    /\ rng' = IF rng = 0 THEN 0 ELSE Advance(rng)
    /\ VisitFrame
    /\ UNCHANGED <<curVars, improved, gi, accepts, tried>>
    /\ Saves

\* lines 498-503: the best random candidate is accepted if it improves
RandomDecide ==
    /\ pc = "random"
    /\ tries = random_tries
    /\ IF improves(best_random_visible, best_random_all,
                   current_visible_crossings, current_all_crossings)
       THEN Accept(best_random_layout, best_random_all, best_random_visible)
       ELSE UNCHANGED <<curVars, improved, accepts>>
    /\ gi' = gi + 1
    /\ pc' = "group"
    /\ VisitFrame
    /\ UNCHANGED <<status, final_layout, randVars, tried, rng>>
    /\ Saves

\* the for loop over sibling_groups is exhausted
RoundEnd ==
    /\ pc = "group"
    /\ gi > Len(Groups)
    /\ pc' = "while"
    /\ UNCHANGED <<inputVars, walk, server, saved, oracleVars, seedVars, rng, runs, status, modelVars, edgeBalance, initVars, curVars,
                   loopVars, randVars, finalVars, histVars>>

Next ==
    \/ BuildGraphModel
    \/ Weigh
    \/ BuildLayout
    \/ CountInitial
    \/ OptReturnEarly
    \/ OptStart
    \/ RoundStart
    \/ TryBarycenter
    \/ TryReverse
    \/ EnterRandom
    \/ RandomSample
    \/ RandomDecide
    \/ RoundEnd
    \/ OptFinish

Spec == Init /\ [][Next]_vars

-----------------------------------------------------------------------------
(* The optimizer run again on its own output *)

\* optimize_sibling_ordering(final_layout, final_all_crossings,
\* final_visible_crossings, ...): what it returned is its new initial layout
Reoptimize ==
    /\ pc = "done"
    /\ status = "SUCCESS"
    /\ runs < MaxRuns
    /\ runs' = runs + 1
    /\ initial_layout' = final_layout
    /\ initial_all_crossings' = final_all_crossings
    /\ initial_visible_crossings' = final_visible_crossings
    /\ pc' = "optimize"
    /\ UNCHANGED <<inputVars, walk, server, saved, oracleVars, seedVars, rng, status, modelVars, edgeBalance, curVars,
                   loopVars, randVars, finalVars, histVars>>

NextReopt == Next \/ Reoptimize

\* the inputs with sibling groups to reorder: the dense ones, and the sparse
\* ones over the same hierarchies
ReoptInputs ==
    DenseInputs \cup RoundCapInputs
    \cup UNION {{MakeData(Len(p), p, sc, es) :
                     sc \in TypeSchemes, es \in EdgeLists(Len(p))} :
                  p \in DenseShapes}

InitReopt == \E d \in ReoptInputs : InitWith(d)

SpecReopt == InitReopt /\ [][NextReopt]_vars

-----------------------------------------------------------------------------
(* The crossing oracle on its own: a graph model, a layout of its nodes and *)
(* an edge list are given, the oracle counts, and the same edges are given  *)
(* again in another order or with an edge's endpoints swapped.              *)

\* typed hierarchies: a leaf under a cluster, under a root, under another
\* leaf below a cluster; clusters inside clusters; untyped nodes
OracleGraphs ==
    {<<(<<0, 1, 2, 3>>), "nested">>, <<(<<0, 1, 2, 3>>), "clustered">>,
     <<(<<0, 1, 2, 2>>), "clustered">>, <<(<<0, 1, 1, 2>>), "clustered">>,
     <<(<<0, 1, 1, 1>>), "generic">>, <<(<<0, 0, 1, 2>>), "nested">>}

OracleEdgeLists ==
    {es \in UNION {[1..k -> (1..OracleNodes) \X (1..OracleNodes)] : k \in 0..OracleEdges} :
        \A i \in 1..(Len(es) - 1) : EdgeBefore(es[i], es[i + 1])}

OracleDenseLists ==
    {es \in [1..OracleDenseEdges -> (1..OracleNodes) \X (1..OracleNodes)] :
        \A i \in 1..(Len(es) - 1) : EdgeBefore(es[i], es[i + 1])}

OracleInputs ==
    {MakeData(OracleNodes, g[1], g[2], es) : g \in OracleGraphs, es \in OracleEdgeLists}

\* with more edges, one hierarchy and two layouts: the edge lists run over
\* every arrangement of the endpoints
OracleDenseInputs ==
    {MakeData(OracleNodes, <<0, 1, 2, 2>>, "clustered", es) : es \in OracleDenseLists}

OracleDenseLayouts == {<<1, 2, 3, 4>>, <<3, 1, 4, 2>>}

NodeList(d) == [i \in DOMAIN d.nodes |-> d.nodes[i].id]

\* count_all_crossings(layout, edges) and count_crossings_like_ilp(layout) with
\* edges as the bottom_edges the latter reads
oracle(model, layout, edges) ==
    LET c == count_crossings_like_ilp([model EXCEPT !.bottom_edges = edges], layout)
    IN  [crossings     |-> count_all_crossings(layout, edges),
         all           |-> c.all,
         visible       |-> c.visible,
         all_count     |-> c.all_count,
         visible_count |-> c.visible_count]

OracleInitWith(d, lay) ==
    /\ data = d
    /\ pc = "oracle"
    /\ M = collect(LoadJson(d))
    /\ SolveBlank
    /\ given_layout = lay
    /\ given_edges = M.bottom_edges
    /\ counted = NotCounted
    /\ Unseeded

OracleInit ==
    \/ \E d \in OracleInputs : \E lay \in Perms(NodeList(d)) : OracleInitWith(d, lay)
    \/ \E d \in OracleDenseInputs : \E lay \in OracleDenseLayouts : OracleInitWith(d, lay)

OracleFrame ==
    UNCHANGED <<inputVars, walk, server, saved, seedVars, rng, runs, status, modelVars, edgeBalance, initVars, curVars,
                loopVars, randVars, finalVars, histVars, given_layout>>

\* the oracle counts the crossings of the given layout
OracleCount ==
    /\ pc = "oracle"
    /\ counted' = oracle(M, given_layout, given_edges)
    /\ pc' = "counted"
    /\ UNCHANGED given_edges
    /\ OracleFrame

\* the same edges in another order, counted again
OracleReorder ==
    /\ pc = "counted"
    /\ \E es \in Perms(given_edges) :
          /\ es # given_edges
          /\ given_edges' = es
          /\ counted' = oracle(M, given_layout, es)
    /\ pc' = pc
    /\ OracleFrame

\* one edge with its endpoints swapped, counted again
OracleSwap ==
    /\ pc = "counted"
    /\ \E k \in DOMAIN given_edges :
          LET e == given_edges[k]
          IN  /\ ~Contains(given_edges, <<e[2], e[1]>>)
              /\ given_edges' = [given_edges EXCEPT ![k] = <<e[2], e[1]>>]
              /\ counted' = oracle(M, given_layout, given_edges')
    /\ pc' = pc
    /\ OracleFrame

OracleNext == OracleCount \/ OracleReorder \/ OracleSwap

SpecOracle == OracleInit /\ [][OracleNext]_vars

-----------------------------------------------------------------------------
(* What the properties speak of: the hierarchy as the input declares it     *)

NodeIds == {data.nodes[i].id : i \in DOMAIN data.nodes}

ParentOf(x) == data.nodes[CHOOSE i \in DOMAIN data.nodes : data.nodes[i].id = x].parent

\* x and everything below it in the declared parent relation
RECURSIVE Below(_, _)
Below(set, fuel) ==
    LET more == set \cup {y \in NodeIds : ParentOf(y) \in set}
    IN  IF more = set \/ fuel = 0 THEN set ELSE Below(more, fuel - 1)

Descendants(x) == Below({x}, Cardinality(NodeIds))

\* every member of set occurs in layout, and their indices form one range
ContiguousBlock(layout, set) ==
    LET P == {i \in DOMAIN layout : layout[i] \in set}
    IN  /\ \A y \in set : Contains(layout, y)
        /\ \A i, j \in P : \A k \in i..j : k \in P

SubtreeContiguous(layout) ==
    \A x \in NodeIds : ContiguousBlock(layout, Descendants(x))

\* every node id exactly once
IsPermutation(layout) ==
    /\ Len(layout) = Cardinality(NodeIds)
    /\ Range(layout) = NodeIds

\* some declared bottom edge runs from a parent to its own child
HasParentChildEdge ==
    \E k \in DOMAIN data.edges : ParentOf(data.edges[k][2]) = data.edges[k][1]

LayoutBuilt == pc \in {"count", "optimize", "while", "group", "reverse",
                       "random_init", "random", "done"}
InOptimizer == pc \in {"while", "group", "reverse", "random_init", "random"}
InVisit == \/ pc \in {"reverse", "random_init", "random"}
           \/ (pc = "group" /\ gi <= Len(Groups))
Returned == pc = "done" /\ status = "SUCCESS"

\* the layout a candidate order of the visited group produces
Candidate(order) == apply_sibling_order(descendant_map, current_layout, Siblings, order)

-----------------------------------------------------------------------------
(* C1: the initial layout places every node's descendant set in one         *)
(* contiguous index range, for every forest input, parent-to-child bottom   *)
(* edges included.                                                          *)
C1_InitialLayoutContiguous == LayoutBuilt => SubtreeContiguous(initial_layout)

\* what does hold: the same, for inputs without a parent-to-child bottom edge
InitialLayoutContiguousUnlessOverwritten ==
    (LayoutBuilt /\ ~HasParentChildEdge) => SubtreeContiguous(initial_layout)

(* C2: every local-search move preserves subtree contiguity: applied to a   *)
(* subtree-contiguous layout, every permutation of a sibling group yields a *)
(* subtree-contiguous layout, so every layout the optimizer holds, tests or *)
(* returns is subtree-contiguous.                                           *)
C2_MovesPreserveContiguity ==
    /\ InOptimizer => SubtreeContiguous(current_layout)
    /\ (InVisit /\ SubtreeContiguous(current_layout)) =>
          \A p \in Perms(current_order) :
             Candidate(p).ok /\ SubtreeContiguous(Candidate(p).layout)
    /\ Returned => SubtreeContiguous(final_layout)

\* the move alone: from a contiguous layout to a contiguous layout
ApplyPreservesContiguity ==
    (InVisit /\ SubtreeContiguous(current_layout)) =>
        \A p \in Perms(current_order) :
           Candidate(p).ok /\ SubtreeContiguous(Candidate(p).layout)

\* what does hold: the same, for inputs without a parent-to-child bottom edge
MovesPreserveContiguityUnlessOverwritten ==
    ~HasParentChildEdge => C2_MovesPreserveContiguity

(* C3: the ordering of a successful solve is a permutation of all node ids: *)
(* the initial layout, the layout after every accepted move and the         *)
(* returned layout hold every node exactly once.                            *)
C3_LayoutIsPermutation ==
    /\ LayoutBuilt => IsPermutation(initial_layout)
    /\ InOptimizer => IsPermutation(current_layout)
    /\ Returned => IsPermutation(final_layout)

\* C3's case: a solve that accepted a move has returned
C3_Witness == Returned /\ final_layout # initial_layout /\ final_layout # <<>>

\* (visible, all) compared lexicographically
LexLE(v1, a1, v2, a2) == v1 < v2 \/ (v1 = v2 /\ a1 <= a2)

\* the oracle's pair of a layout
Visible(layout) == count_crossings_like_ilp(M, layout).visible
All(layout) == count_crossings_like_ilp(M, layout).all

(* C4: a step of a group visit that changes the current layout never        *)
(* raises its lexicographic pair (visible, all), as the oracle counts it,   *)
(* and the pair the optimizer returns is at most the initial pair.          *)
C4_MonotoneNonWorsening ==
    [][/\ (InVisit /\ current_layout' # current_layout) =>
             LexLE(Visible(current_layout'), All(current_layout'),
                   Visible(current_layout), All(current_layout))
       /\ (pc # "done" /\ pc' = "done" /\ status' = "SUCCESS") =>
             /\ LexLE(final_visible_crossings', final_all_crossings',
                      initial_visible_crossings, initial_all_crossings)
             /\ LexLE(Visible(final_layout'), All(final_layout'),
                      Visible(initial_layout), All(initial_layout))]_vars

\* C4's case: a round in which a move was accepted
C4_Witness == pc = "group" /\ accepts > 0 /\ current_layout # initial_layout

(* C5: the oracle's crossing count over the top edges is 0 for the initial  *)
(* layout and for every layout a local-search move produces.                *)
C5_TopEdgesPlanar ==
    /\ LayoutBuilt => count_all_crossings(initial_layout, M.top_edges) = 0
    /\ InOptimizer => count_all_crossings(current_layout, M.top_edges) = 0
    /\ InVisit => \A p \in Perms(current_order) :
          Candidate(p).ok => count_all_crossings(Candidate(p).layout, M.top_edges) = 0
    /\ Returned => count_all_crossings(final_layout, M.top_edges) = 0

\* what does hold: the same, for inputs without a parent-to-child bottom edge
TopEdgesPlanarUnlessOverwritten == ~HasParentChildEdge => C5_TopEdgesPlanar

-----------------------------------------------------------------------------
(* The crossing oracle's results *)

\* an edge of the given list was swapped, and one stands at another index
Resupplied ==
    /\ \E k \in DOMAIN given_edges : ~Contains(M.bottom_edges, given_edges[k])
    /\ \E k \in DOMAIN given_edges :
          Contains(M.bottom_edges, given_edges[k]) /\ M.bottom_edges[k] # given_edges[k]

(* C6: for a fixed layout, the counts the oracle returns (count_all_crossings *)
(* and the all and visible counts of count_crossings_like_ilp) do not change *)
(* when the edges are given in another order or an edge's endpoints are     *)
(* swapped.                                                                 *)
C6_CountsSymmetric ==
    [][(pc = "counted" /\ pc' = "counted" /\ given_layout' = given_layout) =>
          /\ counted'.crossings = counted.crossings
          /\ counted'.all = counted.all
          /\ counted'.visible = counted.visible]_vars

\* C6's case: crossing edges, given again reordered and swapped
C6_Witness == pc = "counted" /\ Resupplied /\ counted.crossings > 0 /\ counted.visible > 0

\* the index of a node in a layout that holds it once
PosIn(lay, x) == CHOOSE i \in DOMAIN lay : lay[i] = x

\* the interval test as stated: endpoint positions sorted into (left, right)
IntervalsCross(lay, e, f) ==
    LET a1 == PosIn(lay, e[1])
        b1 == PosIn(lay, e[2])
        a2 == PosIn(lay, f[1])
        b2 == PosIn(lay, f[2])
        left1  == IF a1 < b1 THEN a1 ELSE b1
        right1 == IF a1 < b1 THEN b1 ELSE a1
        left2  == IF a2 < b2 THEN a2 ELSE b2
        right2 == IF a2 < b2 THEN b2 ELSE a2
    IN  \/ (left1 < left2 /\ left2 < right1 /\ right1 < right2)
        \/ (left2 < left1 /\ left1 < right2 /\ right2 < right1)

\* the unordered pairs of edges of the list es that cross
CrossingPairs(lay, es) ==
    {ij \in (DOMAIN es) \X (DOMAIN es) :
        ij[1] < ij[2] /\ IntervalsCross(lay, es[ij[1]], es[ij[2]])}

SharesEndpoint(e, f) == {e[1], e[2]} \cap {f[1], f[2]} # {}

(* C7: the oracle counts a pair of edges as crossing exactly when the       *)
(* sorted endpoint positions satisfy left1 < left2 < right1 < right2 or     *)
(* left2 < left1 < right2 < right1; the count returned is the number of     *)
(* such pairs; two edges that share an endpoint, and any pair with a        *)
(* self-loop, count 0.                                                      *)
C7_IntervalTest ==
    pc = "counted" =>
        /\ \A i, j \in DOMAIN given_edges :
              edges_cross(given_layout, given_edges[i], given_edges[j])
                 <=> IntervalsCross(given_layout, given_edges[i], given_edges[j])
        /\ counted.crossings = Cardinality(CrossingPairs(given_layout, given_edges))
        /\ counted.all = Cardinality(CrossingPairs(given_layout, given_edges))
        /\ \A i, j \in DOMAIN given_edges :
              (i # j /\ SharesEndpoint(given_edges[i], given_edges[j])) =>
                 ~edges_cross(given_layout, given_edges[i], given_edges[j])

\* C7's case: a crossing pair beside a self-loop that shares its node with
\* another edge
C7_Witness ==
    /\ pc = "counted"
    /\ counted.crossings > 0
    /\ \E i, j \in DOMAIN given_edges :
          /\ i # j
          /\ given_edges[i][1] = given_edges[i][2]
          /\ SharesEndpoint(given_edges[i], given_edges[j])

\* the type tag of a node: root for a node without parent, else as declared
TypeTag(x) ==
    LET n == data.nodes[CHOOSE i \in DOMAIN data.nodes : data.nodes[i].id = x]
    IN  IF n.parent = 0 THEN "root" ELSE n.type

\* the nearest cluster-typed node on the way up from x (x included), 0 if none
RECURSIVE NearestCluster(_, _)
NearestCluster(x, fuel) ==
    IF x = 0 \/ fuel = 0 THEN 0
    ELSE IF TypeTag(x) = "cluster" THEN x
    ELSE NearestCluster(ParentOf(x), fuel - 1)

\* cluster assignment: a cluster is its own, a leaf belongs to its nearest
\* strict ancestor of type cluster or to itself, any other node to itself
ClusterOf(x) ==
    IF TypeTag(x) = "leaf"
    THEN LET c == NearestCluster(ParentOf(x), Cardinality(NodeIds))
         IN  IF c # 0 THEN c ELSE x
    ELSE x

\* the edges of the list es, both endpoints in lay, that join two clusters
BetweenClusters(lay, es) ==
    {k \in DOMAIN es : /\ Contains(lay, es[k][1]) /\ Contains(lay, es[k][2])
                       /\ ClusterOf(es[k][1]) # ClusterOf(es[k][2])}

\* the crossing pairs among them
VisiblePairs(lay, es) ==
    {ij \in CrossingPairs(lay, es) :
        ij[1] \in BetweenClusters(lay, es) /\ ij[2] \in BetweenClusters(lay, es)}

(* C8: the visible count is the number of crossing pairs among the bottom   *)
(* edges (both endpoints in the layout) whose endpoints have different      *)
(* cluster assignments, a cluster being assigned to itself and a leaf to    *)
(* its nearest strict ancestor of type cluster, or to itself without one;   *)
(* an edge inside one cluster never counts.                                 *)
C8_VisibleCount ==
    /\ pc = "counted" =>
          /\ counted.visible = Cardinality(VisiblePairs(given_layout, given_edges))
          /\ counted.visible_count =
                Cardinality(BetweenClusters(given_layout, given_edges))
    /\ pc \in {"optimize", "while", "done"} =>
          initial_visible_crossings =
             Cardinality(VisiblePairs(initial_layout, M.bottom_edges))

\* what does hold: the same, for inputs without a parent-to-child bottom edge
VisibleCountUnlessOverwritten == ~HasParentChildEdge => C8_VisibleCount

\* the case of C8: hidden and visible edges that cross
VisibleCountCase ==
    /\ pc = "counted" /\ ~HasParentChildEdge
    /\ counted.visible < counted.all
    /\ \E x \in NodeIds : TypeTag(x) = "leaf" /\ ClusterOf(x) \notin {x, ParentOf(x)}

-----------------------------------------------------------------------------
(* Re-optimization *)

\* a run of the optimizer on its own output returns
RerunReturns == runs >= 1 /\ pc # "done" /\ pc' = "done" /\ status' = "SUCCESS"

(* C9: the optimizer run again on a layout it returned, whatever the random *)
(* choices, returns the same pair (visible, all): the returned layout is a  *)
(* stable local optimum.                                                    *)
C9_ReoptimizeIdempotent ==
    [][RerunReturns =>
          /\ final_visible_crossings' = initial_visible_crossings
          /\ final_all_crossings' = initial_all_crossings]_vars

(* C9, as it holds: the optimizer run again on a layout it returned never   *)
(* raises the pair (visible, all); it can lower it.                         *)
C9_ReoptimizeNeverWorsens ==
    [][RerunReturns =>
          /\ LexLE(final_visible_crossings', final_all_crossings',
                   initial_visible_crossings, initial_all_crossings)
          /\ LexLE(Visible(final_layout'), All(final_layout'),
                   Visible(initial_layout), All(initial_layout))]_vars

\* the case of C9: a second run has returned a layout with a lower pair
C9_Witness ==
    /\ runs >= 1 /\ pc = "done" /\ status = "SUCCESS"
    /\ final_layout # initial_layout
    /\ ~LexLE(initial_visible_crossings, initial_all_crossings,
              final_visible_crossings, final_all_crossings)

-----------------------------------------------------------------------------
(* Rounds and termination *)

\* the sibling groups of the declared hierarchy: parents of at least 2 children
DeclaredGroups ==
    {x \in NodeIds : Cardinality({y \in NodeIds : ParentOf(y) = x}) >= 2}

\* a round has been completed
RoundDone == pc = "while" /\ iteration > 0

\* at most 3 rounds
RoundBound == iteration <= max_iterations

\* the round visited every sibling group exactly once
RoundVisitsAll ==
    RoundDone => /\ Range(visits) = DeclaredGroups
                 /\ \A i, j \in DOMAIN visits : visits[i] = visits[j] => i = j

\* the round counts as improving exactly when a move was accepted in it
RoundImproving == RoundDone => (improved <=> accepts > 0)

\* the optimizer is left only between rounds, after a round without a change
\* or after the third, and then at once
StopRule ==
    /\ (InOptimizer /\ pc' = "done") =>
          (RoundDone /\ (~improved \/ iteration = max_iterations))
    /\ (RoundDone /\ (~improved \/ iteration = max_iterations)) => pc' = "done"
    /\ (pc = "while" /\ pc' = "group") => (improved /\ iteration < max_iterations)

\* a bound on the steps a visit at this position still takes
VisitSteps ==
    IF pc = "group" THEN 4 + random_tries
    ELSE IF pc = "reverse" THEN 3 + random_tries
    ELSE IF pc = "random_init" THEN 2 + random_tries
    ELSE 1 + random_tries - tries

\* a bound on the steps of a round: its start, its visits, its end
RoundSteps == (4 + random_tries) * Len(data.nodes) + 2

\* a bound on the steps the solve still takes: termination is that every
\* step lowers it
StepsLeft ==
    IF pc = "done" THEN 0
    ELSE IF pc = "while" THEN (max_iterations - iteration) * RoundSteps + 1
    ELSE IF pc = "optimize" THEN max_iterations * RoundSteps + 2
    ELSE IF pc = "count" THEN max_iterations * RoundSteps + 3
    ELSE IF pc = "layout" THEN max_iterations * RoundSteps + 4
    ELSE IF pc = "weigh" THEN max_iterations * RoundSteps + 5
    ELSE IF pc = "load" THEN max_iterations * RoundSteps + 6
    ELSE (max_iterations - iteration) * RoundSteps + 2
         + (IF gi > Len(Groups) THEN 0
            ELSE (4 + random_tries) * (Len(Groups) - gi) + VisitSteps)

(* C10: the optimizer always terminates: at most 3 rounds, every round      *)
(* visiting every sibling group (a parent with at least 2 children) exactly *)
(* once, a round improving exactly when a move was accepted in it, and the  *)
(* optimizer stopping after the first round without a change or after the   *)
(* third round.                                                             *)
C10_RoundsTerminate ==
    [][/\ StepsLeft' < StepsLeft
       /\ (RoundBound /\ RoundVisitsAll /\ RoundImproving)'
       /\ StopRule]_vars

\* what does hold: the same, for inputs without a parent-to-child bottom edge
RoundsUnlessOverwritten ==
    [][/\ StepsLeft' < StepsLeft
       /\ RoundBound'
       /\ ~HasParentChildEdge => (RoundVisitsAll /\ RoundImproving)' /\ StopRule]_vars

\* the case of C10: the optimizer stopped after a third improving round
ThirdRoundCase ==
    pc = "done" /\ status = "SUCCESS" /\ iteration = max_iterations /\ improved

-----------------------------------------------------------------------------
(* No-op outcomes *)

\* no move was accepted in this run: an early return, or a first round
\* without an accepted move
NothingAccepted == pc = "done" /\ (iteration = 0 \/ (iteration = 1 /\ accepts = 0))

\* the optimizer returned the initial layout with the initial counts
ReturnedUnchanged ==
    /\ status = "SUCCESS"
    /\ final_layout = initial_layout
    /\ final_all_crossings = initial_all_crossings
    /\ final_visible_crossings = initial_visible_crossings

\* nothing to optimize: both initial counts are 0 (as they are without edges)
NothingToDo ==
    /\ data.edges = <<>> => (initial_all_crossings = 0 /\ initial_visible_crossings = 0)
    /\ (initial_all_crossings = 0 /\ initial_visible_crossings = 0) =>
          /\ ReturnedUnchanged
          /\ iteration = 0 /\ visits = <<>> /\ tried = <<>> /\ accepts = 0

(* C11: without bottom edges, or with an initial layout of 0 crossings in   *)
(* both modes, the optimizer returns the initial layout with counts 0/0 and *)
(* tries no move; and a run in which no move is accepted returns the        *)
(* initial layout with the initial counts, not an error.                    *)
C11_NoOpOutcome ==
    pc = "done" => /\ NothingToDo
                   /\ NothingAccepted => ReturnedUnchanged

\* what does hold: the same, for inputs without a parent-to-child bottom edge
NoOpUnlessOverwritten == ~HasParentChildEdge => C11_NoOpOutcome

\* the case of C11: a round of rejected candidates, the initial layout returned
NoOpCase ==
    /\ pc = "done" /\ iteration = 1 /\ accepts = 0
    /\ initial_visible_crossings > 0
    /\ Len(tried) = 3
    /\ ReturnedUnchanged

-----------------------------------------------------------------------------
(* The instance of two clusters: a root (role 1) with the child clusters C1 *)
(* (role 2) and C2 (role 3), the leaves A, B (roles 4, 5) of C1 and C, D    *)
(* (roles 6, 7) of C2, and the bottom edges (A, C) and (B, D).  The ids     *)
(* 1..7 are given to the roles in every way (the id is the place in the     *)
(* declaration order), the edges are listed in both orders and with their   *)
(* endpoints either way round.                                              *)

TwoClusterParent == <<0, 1, 1, 2, 2, 3, 3>>

TwoClusterType == <<"cluster", "cluster", "cluster", "leaf", "leaf", "leaf", "leaf">>

TwoClusterEdges(id) ==
    LET ac == {<<id[4], id[6]>>, <<id[6], id[4]>>}
        bd == {<<id[5], id[7]>>, <<id[7], id[5]>>}
    IN  {<<e, f>> : e \in ac, f \in bd} \cup {<<f, e>> : e \in ac, f \in bd}

TwoClusterData(id, es) ==
    [nodes |-> [i \in 1..7 |->
                  LET r == CHOOSE r \in 1..7 : id[r] = i
                  IN  [id |-> i,
                       parent |-> IF TwoClusterParent[r] = 0 THEN 0
                                  ELSE id[TwoClusterParent[r]],
                       type |-> TwoClusterType[r]]],
     edges |-> es]

InitTwoClusters ==
    \E id \in Perms(<<1, 2, 3, 4, 5, 6, 7>>) :
       \E es \in TwoClusterEdges(id) : InitWith(TwoClusterData(id, es))

SpecTwoClusters == InitTwoClusters /\ [][Next]_vars

\* the initial layout is tree-contiguous and its two edges cross: the leaves
\* stand in the order A, B, C, D (or its mirror images B, A, D, C etc.)
CrossedStart ==
    /\ SubtreeContiguous(initial_layout)
    /\ initial_visible_crossings = 1

(* C12: on the two-cluster instance with the edges (A,C) and (B,D), when    *)
(* the tree-contiguous initial layout has 1 visible crossing, the solve     *)
(* returns, whatever the random moves draw, a layout with 0 visible         *)
(* crossings.                                                               *)
C12_TwoClustersUncrossed ==
    (pc = "done" /\ CrossedStart) =>
        /\ status = "SUCCESS"
        /\ final_visible_crossings = 0
        /\ Visible(final_layout) = 0
        /\ IsPermutation(final_layout)

\* the case of C12: a crossing initial layout, solved
C12_Witness ==
    /\ pc = "done" /\ CrossedStart
    /\ final_layout # initial_layout
    /\ final_visible_crossings = 0

-----------------------------------------------------------------------------
(* Two solves of the same input, the generator seeded with the same seed    *)
(* before each                                                              *)

\* what a solve hands back: the layout, the counts, the status
Outcome ==
    [layout  |-> final_layout,
     all     |-> final_all_crossings,
     visible |-> final_visible_crossings,
     status  |-> status]

\* the hierarchies with sibling groups, as clusterings, with DenseEdges or
\* with one edge fewer
SeededInputs ==
    DenseInputs \cup RoundCapInputs \cup RaisingInputs
    \cup UNION {{MakeData(Len(p), p, "clustered", es) :
                     es \in {es \in EdgeLists(Len(p)) : Len(es) = MaxEdges}} :
                  p \in DenseShapes}

InitSeededWith(d, s) ==
    /\ data = d
    /\ pc = "load"
    /\ M = EmptyModel(EmptyGraph)
    /\ SolveBlank
    /\ given_layout = <<>>
    /\ given_edges = <<>>
    /\ counted = NotCounted
    /\ seed = s
    /\ rng = Reseed(s)
    /\ first = <<>>

InitSeeded == \E d \in SeededInputs : \E s \in 1..MaxSeed : InitSeededWith(d, s)

\* the first solve has returned: its outcome is kept, the generator is
\* seeded again and the same input is solved again from the start
SolveAgain ==
    /\ pc = "done"
    /\ seed # 0
    /\ first = <<>>
    /\ first' = <<Outcome>>
    /\ rng' = Reseed(seed)
    /\ pc' = "load"
    /\ M' = EmptyModel(EmptyGraph)
    /\ status' = "SUCCESS"
    /\ edgeBalance' = <<>>
    /\ descendant_map' = <<>>
    /\ leaf_map' = <<>>
    /\ initial_layout' = <<>>
    /\ initial_all_crossings' = 0
    /\ initial_visible_crossings' = 0
    /\ current_layout' = <<>>
    /\ current_all_crossings' = 0
    /\ current_visible_crossings' = 0
    /\ improved' = FALSE
    /\ iteration' = 0
    /\ gi' = 0
    /\ best_random_layout' = <<>>
    /\ best_random_all' = 0
    /\ best_random_visible' = 0
    /\ tries' = 0
    /\ final_layout' = <<>>
    /\ final_all_crossings' = 0
    /\ final_visible_crossings' = 0
    /\ visits' = <<>>
    /\ accepts' = 0
    /\ tried' = <<>>
    /\ UNCHANGED <<inputVars, walk, server, saved, oracleVars, seed, runs>>

NextSeeded == Next \/ SolveAgain

SpecSeeded == InitSeeded /\ [][NextSeeded]_vars

-----------------------------------------------------------------------------
(* Inputs outside the contract: a parent reference to an id no node         *)
(* declares.  The nodes are 1..n, the absent id is n + 1.                   *)

MalformedNodes == 4

AbsentParentMaps(n) ==
    {p \in [1..n -> 0..(n + 1)] :
        /\ \A i \in 1..n : p[i] < i \/ p[i] = n + 1
        /\ \E i \in 1..n : p[i] = n + 1}

MalformedInputs ==
    {MakeData(MalformedNodes, p, sc, es) :
        p \in AbsentParentMaps(MalformedNodes), sc \in TypeSchemes,
        es \in EdgeLists(MalformedNodes)}

InitMalformed == \E d \in MalformedInputs : InitWith(d)

SpecMalformed == InitMalformed /\ [][Next]_vars

\* some node names a parent that no node declares
MissingParent ==
    \E i \in DOMAIN data.nodes :
       /\ data.nodes[i].parent # 0
       /\ \A j \in DOMAIN data.nodes : data.nodes[j].id # data.nodes[i].parent

(* C14: when a node references a parent id that no node declares, building  *)
(* the graph model fails (the solve does not go on as a success) and no     *)
(* layout is produced.                                                      *)
C14_MissingParentRejected ==
    MissingParent =>
        /\ pc # "load" => status # "SUCCESS"
        /\ initial_layout = <<>>
        /\ final_layout = <<>>

\* what the code does: the absent parent becomes a node of the graph, and
\* the solve returns a layout that holds it
MissingParentLaidOut ==
    (MissingParent /\ pc = "done") =>
        /\ status = "SUCCESS"
        /\ Range(final_layout) = NodeIds \cup {Len(data.nodes) + 1}
        /\ Len(final_layout) = Len(data.nodes) + 1

-----------------------------------------------------------------------------
(* Inputs outside the contract: a parent relation with a cycle *)

CyclicNodes == 3
MaxWalk == 6

\* following the parent references from i comes back to where it was
RECURSIVE ParentSteps(_, _, _)
ParentSteps(p, i, k) == IF k = 0 \/ i = 0 THEN i ELSE ParentSteps(p, p[i], k - 1)

CyclicParentMaps(n) ==
    {p \in [1..n -> 0..n] : \E i \in 1..n : ParentSteps(p, i, n + 1) # 0}

\* every cyclic hierarchy on CyclicNodes nodes, and a larger one, its cycle
\* 1 -> 4 -> 1 under the bottom edge (4, 1), on which the optimizer runs
CyclicInputs ==
    {MakeData(CyclicNodes, p, sc, es) :
        p \in CyclicParentMaps(CyclicNodes), sc \in TypeSchemes,
        es \in EdgeLists(CyclicNodes)}
    \cup {MakeData(5, <<4, 5, 4, 1, 4>>, "generic",
                   << <<2, 4>>, <<3, 5>>, <<4, 1>> >>)}

InitCyclic == \E d \in CyclicInputs : InitWith(d)

\* lines 148-151: ancestors(v) is called on an endpoint whose parents go
\* round a cycle; the edges before it have been weighed
AncestorsLoop ==
    /\ pc = "weigh"
    /\ CyclicEndpoints(M) # <<>>
    /\ walk' = <<get_immediate_parent(M, CyclicEndpoints(M)[1])>>
    /\ pc' = "ancestors"
    /\ UNCHANGED <<inputVars, server, saved, oracleVars, seedVars, rng, runs, status, modelVars,
                   edgeBalance, initVars, curVars, loopVars, randVars, finalVars,
                   histVars>>

\* lines 149-151: one more turn of the while loop, the list one longer
AncestorsSpin ==
    /\ pc = "ancestors"
    /\ Len(walk) < MaxWalk
    /\ walk' = Append(walk, get_immediate_parent(M, walk[Len(walk)]))
    /\ UNCHANGED <<inputVars, server, saved, oracleVars, seedVars, rng, runs, pc, status, modelVars,
                   edgeBalance, initVars, curVars, loopVars, randVars, finalVars,
                   histVars>>

\* lines 181-191: addLeavesRecursively goes round a cycle of the children
\* map until RecursionError, outside the try block: the exception leaves the
\* solve, nothing is returned
LeavesRaise ==
    /\ pc = "weigh"
    /\ CyclicEndpoints(M) = <<>>
    /\ ChildrenCyclic(M)
    /\ edgeBalance' = weigh(M)
    /\ pc' = "raised"
    /\ UNCHANGED <<inputVars, walk, server, saved, oracleVars, seedVars, rng, runs, status, modelVars,
                   initVars, curVars, loopVars, randVars, finalVars, histVars>>

NextCyclic == Next \/ AncestorsLoop \/ AncestorsSpin \/ LeavesRaise

SpecCyclic == InitCyclic /\ [][NextCyclic]_vars

\* the declared parent relation has a cycle
ParentCycle ==
    \E i \in DOMAIN data.nodes :
       ParentSteps([j \in DOMAIN data.nodes |-> data.nodes[j].parent], i,
                   Len(data.nodes) + 1) # 0

(* C15: when the parent relation has a cycle the solve fails fast: it ends  *)
(* with a failure before any layout is built, it neither loops nor goes on  *)
(* with what it can recover, with or without a bottom edge at a node on or  *)
(* below the cycle.                                                         *)
C15_CycleFailsFast ==
    ParentCycle => /\ pc \in {"load", "weigh", "raised"}
                   /\ walk = <<>>

\* what does hold: without bottom edges the solve ends with an exception
CycleRaisesWithoutEdges ==
    (ParentCycle /\ data.edges = <<>>) => pc \in {"load", "weigh", "raised"}

\* the case the code loops on: the parents list of ancestors() has gone
\* round the cycle more than once
CycleLoops ==
    /\ ParentCycle /\ pc = "ancestors"
    /\ Len(walk) = MaxWalk
    /\ \E i, j \in DOMAIN walk : i < j /\ walk[i] = walk[j]

-----------------------------------------------------------------------------
(* The solve of a graph object the caller supplies.  The caller's graph has *)
(* the nodes with their type and parent attributes and the bottom edges,    *)
(* and either no edge for the hierarchy or the top edges as well.           *)

GraphOf(d) ==
    {AddBottomEdges(AddNodes(EmptyGraph, d.nodes), d.edges), LoadJson(d)}

\* the hierarchies with sibling groups, with at most MaxEdges bottom edges
GraphDescriptions ==
    RoundCapInputs
    \cup UNION {{MakeData(Len(p), p, sc, es) :
                     sc \in TypeSchemes, es \in EdgeLists(Len(p))} :
                  p \in DenseShapes}

GraphInputs == {[graph |-> G] : G \in UNION {GraphOf(d) : d \in GraphDescriptions}}

InitGraph == \E d \in GraphInputs : InitWith(d)

SpecGraph == InitGraph /\ [][Next]_vars

\* the edges of a graph with their types
EdgeSet(G) == Range(G_edges(G))

\* every parent attribute has its edge of type top in the graph
HierarchyEdgesPresent(G) ==
    \A x \in Range(G.nodes) :
       G.nparent[x] # 0 =>
          (has_edge(G, G.nparent[x], x) /\ edge_type(G, G.nparent[x], x) = "top")

(* C16: the solve of a caller-supplied graph object leaves the caller's     *)
(* graph with the same edges and the same type on every edge.               *)
C16_CallerGraphUntouched ==
    ("graph" \in DOMAIN data /\ pc # "load") => EdgeSet(M.G) = EdgeSet(data.graph)

\* what does hold: a graph that has its hierarchy edges already is left as
\* it is; the solve only ever adds or retypes edges from a parent to its child
CallerGraphUntouchedIfComplete ==
    ("graph" \in DOMAIN data /\ pc # "load") =>
        /\ HierarchyEdgesPresent(data.graph) => EdgeSet(M.G) = EdgeSet(data.graph)
        /\ \A e \in EdgeSet(M.G) \ EdgeSet(data.graph) :
              e.type = "top" /\ data.graph.nparent[e.v] = e.u
        /\ M.G.nodes = data.graph.nodes

\* the case of C16: a solved graph whose bottom edge from a parent to its
\* child came back as a top edge
CallerEdgeRetyped ==
    /\ "graph" \in DOMAIN data /\ pc = "done"
    /\ \E e \in EdgeSet(data.graph) :
          e.type = "bottom" /\ [e EXCEPT !.type = "top"] \in EdgeSet(M.G)

-----------------------------------------------------------------------------
(* The crossing constraints of the exact solver (src/ILP_solver_backup.py)  *)
(* for one pair of edges, under a total order of the nodes.                 *)

IlpNodes == 4

\* x_nodes[getKey(u, v)] in a solution that stands for the total order
x_nodes(order, u, v) ==
    LET pu == CHOOSE i \in DOMAIN order : order[i] = u
        pv == CHOOSE i \in DOMAIN order : order[i] = v
    IN  IF pu < pv THEN 1 ELSE 0

\* a variant of the constraints without the last of the eight
crossing_terms_seven(e1, e2) ==
    LET a == e1[1]
        b == e1[2]
        c == e2[1]
        d == e2[2]
    IN  IF a # c /\ a # d /\ b # c /\ b # d
        THEN << << <<a, c>>, <<c, b>>, <<b, d>> >>,
                << <<b, c>>, <<c, a>>, <<a, d>> >>,
                << <<a, d>>, <<d, b>>, <<b, c>> >>,
                << <<b, d>>, <<d, a>>, <<a, c>> >>,
                << <<c, a>>, <<a, d>>, <<d, b>> >>,
                << <<c, b>>, <<b, d>>, <<d, a>> >>,
                << <<d, a>>, <<a, c>>, <<c, b>> >> >>
        ELSE <<>>

\* addCrossingConstr: the left-hand sides of the constraints
\* x + y + z <= 2 + x_edge, each as its three (u before v) terms
crossing_terms(e1, e2) ==
    LET a == e1[1]
        b == e1[2]
        c == e2[1]
        d == e2[2]
    IN  IF a # c /\ a # d /\ b # c /\ b # d
        THEN << << <<a, c>>, <<c, b>>, <<b, d>> >>,
                << <<b, c>>, <<c, a>>, <<a, d>> >>,
                << <<a, d>>, <<d, b>>, <<b, c>> >>,
                << <<b, d>>, <<d, a>>, <<a, c>> >>,
                << <<c, a>>, <<a, d>>, <<d, b>> >>,
                << <<c, b>>, <<b, d>>, <<d, a>> >>,
                << <<d, a>>, <<a, c>>, <<c, b>> >>,
                << <<d, b>>, <<b, c>>, <<c, a>> >> >>
        ELSE <<>>

\* the constraints the solver adds for the pair: those of addCrossingConstr
\* when the two edges have the same type, none otherwise
crossing_constraints(e1, t1, e2, t2) ==
    IF t1 = t2 THEN crossing_terms(e1, e2) ELSE <<>>

\* the value x_edge satisfies every constraint of the list under the order
satisfies(order, cs, x_edge) ==
    \A k \in DOMAIN cs :
       x_nodes(order, cs[k][1][1], cs[k][1][2])
       + x_nodes(order, cs[k][2][1], cs[k][2][2])
       + x_nodes(order, cs[k][3][1], cs[k][3][2]) <= 2 + x_edge

\* the least value of the binary x_edge the constraints allow: 1 when they
\* force the indicator, 0 when they force nothing
forced_indicator(order, cs) ==
    IF satisfies(order, cs, 0) THEN 0 ELSE 1

IlpPairs ==
    {[nodes |-> <<>>, edges |-> <<e1, e2>>, types |-> <<t1, t2>>] :
        e1 \in (1..IlpNodes) \X (1..IlpNodes), e2 \in (1..IlpNodes) \X (1..IlpNodes),
        t1 \in {"top", "bottom"}, t2 \in {"top", "bottom"}}

IlpOrders == Perms([i \in 1..IlpNodes |-> i])

InitIlp ==
    \E d \in IlpPairs : \E order \in IlpOrders :
       /\ data = d
       /\ pc = "ilp"
       /\ M = EmptyModel(EmptyGraph)
       /\ SolveBlank
       /\ given_layout = order
       /\ given_edges = d.edges
       /\ counted = NotCounted
       /\ Unseeded

\* the constraints of the pair are added: counted.all_count is their number
\* and counted.all the value they force on the pair's indicator; beside them
\* counted.crossings is what the oracle counts for the two edges under the
\* same order
IlpConstrain ==
    /\ pc = "ilp"
    /\ LET cs == crossing_constraints(data.edges[1], data.types[1],
                                      data.edges[2], data.types[2])
       IN  counted' = [NotCounted EXCEPT
                          !.crossings = count_all_crossings(given_layout, given_edges),
                          !.all_count = Len(cs),
                          !.all = forced_indicator(given_layout, cs)]
    /\ pc' = "constrained"
    /\ UNCHANGED <<inputVars, walk, server, saved, seedVars, rng, runs, status, modelVars, edgeBalance,
                   initVars, curVars, loopVars, randVars, finalVars, histVars,
                   given_layout, given_edges>>

NextIlp == IlpConstrain

SpecIlp == InitIlp /\ [][NextIlp]_vars

\* the four endpoints of the pair are distinct
FourEndpoints ==
    Cardinality({data.edges[1][1], data.edges[1][2],
                 data.edges[2][1], data.edges[2][2]}) = 4

(* C17: for a pair of same-type edges with four distinct endpoints, under   *)
(* every total order, the eight crossing constraints force the crossing     *)
(* indicator to 1 exactly when the oracle's interval test reports a         *)
(* crossing; for a pair that shares an endpoint they force nothing.         *)
C17_IlpAgreesWithOracle ==
    pc = "constrained" =>
        /\ (FourEndpoints /\ data.types[1] = data.types[2]) =>
              /\ counted.all_count = 8
              /\ counted.all = 1 <=> edges_cross(given_layout, data.edges[1], data.edges[2])
              /\ counted.all = counted.crossings
        /\ SharesEndpoint(data.edges[1], data.edges[2]) =>
              (counted.all_count = 0 /\ counted.all = 0 /\ counted.crossings = 0)

\* the case of C17: two bottom edges that cross in an order only the last
\* constraint speaks of (d before b before c before a)
C17_Witness ==
    /\ pc = "constrained" /\ FourEndpoints
    /\ data.types = <<"bottom", "bottom">>
    /\ counted.all = 1 /\ counted.crossings = 1
    /\ x_nodes(given_layout, data.edges[2][2], data.edges[1][2]) = 1
    /\ x_nodes(given_layout, data.edges[1][2], data.edges[2][1]) = 1
    /\ x_nodes(given_layout, data.edges[2][1], data.edges[1][1]) = 1

-----------------------------------------------------------------------------
(* The weights the weigher leaves, against the declared hierarchy *)

\* the strict ancestors of x in the declared parent relation
StrictAncestors(x) == {y \in NodeIds : y # x /\ x \in Descendants(y)}

\* the common ancestors of u and v, a node being an ancestor of itself: the
\* lowest common ancestor and everything above it
CommonAncestors(u, v) ==
    (StrictAncestors(u) \cup {u}) \cap (StrictAncestors(v) \cup {v})

\* the ancestors strictly between u (or v) and the lowest common ancestor
StrictlyBetween(u, v) ==
    (StrictAncestors(u) \cup StrictAncestors(v)) \ CommonAncestors(u, v)

RECURSIVE ExpectedWeight(_, _)
ExpectedWeight(es, x) ==
    IF es = <<>> THEN 0
    ELSE LET u == Head(es)[1]
             v == Head(es)[2]
         IN  (IF u = x THEN 1 ELSE 0) + (IF v = x THEN 1 ELSE 0)
             + (IF x \in StrictlyBetween(u, v) THEN 1 ELSE 0)
             + ExpectedWeight(Tail(es), x)

\* the weigher has run and the builder has not yet changed the weights
Weighed == pc = "layout"

\* some bottom edge joins a node to one of its strict ancestors
EdgeToAncestor ==
    \E k \in DOMAIN M.bottom_edges :
       \/ M.bottom_edges[k][1] \in StrictAncestors(M.bottom_edges[k][2])
       \/ M.bottom_edges[k][2] \in StrictAncestors(M.bottom_edges[k][1])

(* C18: after the weigher has run, every node's weight is the number of     *)
(* bottom-edge endpoints at it plus, per bottom edge (u,v), 1 if it lies    *)
(* strictly between u (or v) and their lowest common ancestor; the lowest   *)
(* common ancestor and the ancestors above it get nothing from the edge,    *)
(* also when one endpoint is an ancestor of the other.                      *)
C18_WeightsCountBranches ==
    Weighed => \A x \in NodeIds : edgeBalance[x] = ExpectedWeight(M.bottom_edges, x)

\* the same statement where no bottom edge joins a node to its ancestor and
\* no declared edge has replaced a hierarchy edge
WeightsCountBranchesApart ==
    (Weighed /\ ~EdgeToAncestor /\ ~HasParentChildEdge) =>
        \A x \in NodeIds : edgeBalance[x] = ExpectedWeight(M.bottom_edges, x)

\* the statement fails on an edge to an ancestor with every hierarchy edge
\* in place: the ancestor endpoint is weighed twice for the one edge
AncestorWeighedTwice ==
    /\ Weighed /\ ~HasParentChildEdge
    /\ Len(M.bottom_edges) = 1
    /\ M.bottom_edges[1][1] \in StrictAncestors(M.bottom_edges[1][2])
    /\ edgeBalance[M.bottom_edges[1][1]] = 2

\* an edge between two branches raises the weights below the lowest common
\* ancestor and not the ancestor's
BranchesWeighed ==
    /\ Weighed /\ ~EdgeToAncestor /\ ~HasParentChildEdge
    /\ \E k \in DOMAIN M.bottom_edges :
          /\ StrictlyBetween(M.bottom_edges[k][1], M.bottom_edges[k][2]) # {}
          /\ CommonAncestors(M.bottom_edges[k][1], M.bottom_edges[k][2]) # {}

-----------------------------------------------------------------------------
(* The weights the builder leaves, against the visits of its traversal *)

\* the weights w less 2 at every node of the list
RECURSIVE LessTwoAt(_, _)
LessTwoAt(w, xs) ==
    IF xs = <<>> THEN w ELSE LessTwoAt([w EXCEPT ![Head(xs)] = @ - 2], Tail(xs))

\* what the visit of node takes from the weights w as stated: 2 from every
\* neighbour not yet visited and, for each such neighbour, 2 from every
\* strict ancestor of node
RECURSIVE StatedVisit(_, _, _, _)
StatedVisit(w, visited, others, node) ==
    IF others = <<>> THEN w
    ELSE StatedVisit(
            IF Head(others) \in visited THEN w
            ELSE LessTwoAt([w EXCEPT ![Head(others)] = @ - 2],
                           Filter(M.G.nodes, StrictAncestors(node))),
            visited, Tail(others), node)

\* the stated visits in the order of the nodes of layout, from position i on
RECURSIVE StatedDiscounts(_, _, _)
StatedDiscounts(w, layout, i) ==
    IF i > Len(layout) THEN w
    ELSE StatedDiscounts(
            StatedVisit(w, {layout[k] : k \in 1..i}, M.adjacency[layout[i]], layout[i]),
            layout, i + 1)

\* the builder has run: edgeBalance holds the weights it left
Built == pc = "count"

\* some node below a root was visited while a neighbour of it was not
DiscountBelowRoot ==
    \E i \in DOMAIN initial_layout :
       /\ StrictAncestors(initial_layout[i]) # {}
       /\ \E k \in DOMAIN M.adjacency[initial_layout[i]] :
             M.adjacency[initial_layout[i]][k] \notin {initial_layout[j] : j \in 1..i}

(* C19: when the builder visits a node, every not yet visited bottom-edge   *)
(* neighbour loses exactly 2 of its weight and every strict ancestor of the *)
(* visited node loses 2; the neighbour loses nothing more on account of     *)
(* those ancestors.  Stated of the weights left when the traversal is over. *)
C19_DiscountAtVisit ==
    Built => edgeBalance = StatedDiscounts(weigh(M), initial_layout, 1)

\* the same statement where every discounting visit is that of a root
DiscountAtRootVisit ==
    (Built /\ ~DiscountBelowRoot /\ ~HasParentChildEdge) =>
        edgeBalance = StatedDiscounts(weigh(M), initial_layout, 1)

\* a root with an unvisited neighbour was visited
RootDiscounted ==
    /\ Built /\ ~DiscountBelowRoot /\ ~HasParentChildEdge
    /\ edgeBalance # weigh(M)

\* below a root the neighbour loses 2 more per ancestor of the visited node
\* and the ancestors lose nothing
NeighbourPaysForAncestors ==
    /\ Built /\ DiscountBelowRoot /\ ~HasParentChildEdge
    /\ \E x \in NodeIds : edgeBalance[x] <= weigh(M)[x] - 4
    /\ \A x \in NodeIds : M.children[x] # <<>> => edgeBalance[x] = weigh(M)[x]

-----------------------------------------------------------------------------
(* The order of the traversal, against the weights at each of its steps *)

\* the weights when the builder is about to take the node at position i of
\* layout: those the weigher left, after the visits of the nodes before it
RECURSIVE WeightsBefore(_, _)
WeightsBefore(layout, i) ==
    IF i <= 1 THEN weigh(M)
    ELSE discount_neighbours(WeightsBefore(layout, i - 1),
                             {layout[k] : k \in 1..(i - 1)},
                             M.adjacency[layout[i - 1]],
                             Len(ancestors(M, layout[i - 1])))

\* the children of the parent of x that are not among the first i - 1 nodes
\* of layout
UnvisitedSiblings(layout, i, x) ==
    {c \in NodeIds : ParentOf(c) = ParentOf(x)} \ {layout[k] : k \in 1..(i - 1)}

\* the roots occur in layout in ascending order of the weigher's weights
RootsAscending(layout) ==
    \A i, j \in DOMAIN layout :
       (i < j /\ ParentOf(layout[i]) = 0 /\ ParentOf(layout[j]) = 0) =>
          weigh(M)[layout[i]] <= weigh(M)[layout[j]]

\* the child at position i has the least weight, as the weights are at
\* position at, of the children of its parent not yet visited
LeastChildAt(layout, i, at) ==
    \A c \in UnvisitedSiblings(layout, i, layout[i]) :
       WeightsBefore(layout, at)[layout[i]] <= WeightsBefore(layout, at)[c]

(* C20: the roots are taken in ascending order of weight, and each time the *)
(* builder recurses into a child, that child is a not yet visited child of  *)
(* its parent of minimum current weight at that moment, the weight changes  *)
(* made during earlier siblings' subtrees included.                         *)
C20_ChildOfLeastCurrentWeight ==
    Built =>
        /\ RootsAscending(initial_layout)
        /\ \A i \in DOMAIN initial_layout :
              ParentOf(initial_layout[i]) # 0 => LeastChildAt(initial_layout, i, i)

\* the weights of the replay end as the builder leaves them
ReplayIsTraversal ==
    (Built /\ ~HasParentChildEdge) =>
        edgeBalance = WeightsBefore(initial_layout, Len(initial_layout) + 1)

\* what holds instead: every child taken has the least weight of the not yet
\* visited children as the weights were just after the visit of its parent
ChildOfLeastWeightAtParent ==
    (Built /\ ~HasParentChildEdge) =>
        /\ RootsAscending(initial_layout)
        /\ \A i \in DOMAIN initial_layout :
              ParentOf(initial_layout[i]) # 0 =>
                 LeastChildAt(initial_layout, i,
                              1 + CHOOSE k \in DOMAIN initial_layout :
                                     initial_layout[k] = ParentOf(initial_layout[i]))

\* a child was taken although the visit of an earlier sibling had left
\* another child with less weight
StaleChildOrder ==
    /\ Built /\ ~HasParentChildEdge
    /\ \E i \in DOMAIN initial_layout :
          /\ ParentOf(initial_layout[i]) # 0
          /\ ~LeastChildAt(initial_layout, i, i)

-----------------------------------------------------------------------------
(* What apply_sibling_order leaves in place *)

\* the nodes at or below one of the visited siblings, as declared
GroupDescendants == UNION {Descendants(s) : s \in Range(Siblings)}

\* the 1-based index of x in layout
IndexIn(layout, x) == CHOOSE i \in DOMAIN layout : layout[i] = x

\* the layout new_order produces from the current one keeps every node
\* outside the group at its index, has the siblings' blocks in the order of
\* new_order and keeps the order inside each block
AppliedInPlace(new_order) ==
    LET r == Candidate(new_order)
    IN  /\ r.ok
        /\ Len(r.layout) = Len(current_layout)
        /\ \A i \in DOMAIN current_layout :
              current_layout[i] \notin GroupDescendants =>
                 r.layout[i] = current_layout[i]
        /\ \A k, l \in DOMAIN new_order :
              k < l => \A x \in Descendants(new_order[k]) :
                          \A y \in Descendants(new_order[l]) :
                             /\ Contains(r.layout, x) /\ Contains(r.layout, y)
                             /\ IndexIn(r.layout, x) < IndexIn(r.layout, y)
        /\ \A s \in Range(Siblings) :
              Filter(r.layout, Descendants(s)) = Filter(current_layout, Descendants(s))

(* C21: apply_sibling_order changes nothing outside the reordered group:    *)
(* on a subtree-contiguous layout, for every permutation of the sibling     *)
(* group, the nodes that are no descendants of a sibling keep their index,  *)
(* the sibling blocks come in the order of the new sequence, each block     *)
(* keeps its inner order, the group's current order gives the layout back,  *)
(* and the layout handed in is not changed by the call: a step of a visit   *)
(* that accepts nothing leaves the current layout as it was.                *)
C21_ApplyInPlace ==
    [][/\ (InVisit /\ SubtreeContiguous(current_layout)) =>
             /\ \A p \in Perms(current_order) : AppliedInPlace(p)
             /\ Candidate(current_order).layout = current_layout
       /\ (InVisit /\ accepts' = accepts /\ pc' # "done") =>
             current_layout' = current_layout]_vars

\* the same where no declared edge has replaced a hierarchy edge
ApplyInPlaceUnlessOverwritten ==
    [][~HasParentChildEdge =>
         /\ (InVisit /\ SubtreeContiguous(current_layout)) =>
               /\ \A p \in Perms(current_order) : AppliedInPlace(p)
               /\ Candidate(current_order).layout = current_layout
         /\ (InVisit /\ accepts' = accepts) =>
               current_layout' = current_layout]_vars

\* a group of three whose blocks a permutation moves around a node that
\* stays outside
ApplyCase ==
    /\ InVisit /\ ~HasParentChildEdge /\ SubtreeContiguous(current_layout)
    /\ Len(current_order) >= 3
    /\ GroupDescendants # NodeIds
    /\ \E s \in Range(Siblings) : Cardinality(Descendants(s)) > 1

-----------------------------------------------------------------------------
(* The candidates of one visit of a sibling group *)

\* strictly less in the lexicographic order of (visible, all)
LexLT(v1, a1, v2, a2) == v1 < v2 \/ (v1 = v2 /\ a1 < a2)

\* the candidate with order p is strictly better than the pair (v, a)
Better(p, v, a) ==
    Candidate(p).ok /\ LexLT(Visible(Candidate(p).layout), All(Candidate(p).layout), v, a)

\* the candidates tried so far in the visit came in the fixed order
TriedInOrder ==
    /\ tried = Filter(<<"barycenter", "reverse", "random">>, Range(tried))
    /\ pc = "reverse" => tried \in {<<>>, <<"barycenter">>}
    /\ pc = "random_init" => ~Contains(tried, "random")
    /\ pc = "random" => /\ tried # <<>> /\ tried[Len(tried)] = "random"
                        /\ Len(Siblings) <= 6
                        /\ tries <= 5

\* a visit goes on to the next candidate only without an accepted move: the
\* candidate before was skipped as the current order, or was not better
GoesOnIfRejected ==
    /\ (InVisit /\ pc' \in {"reverse", "random_init", "random"}) =>
          (current_layout' = current_layout /\ accepts' = accepts /\ gi' = gi)
    /\ (pc = "group" /\ pc' = "reverse") =>
          LET b == barycenter_ordering(M, leaf_map, Siblings, current_layout)
          IN  IF tried' = <<>> THEN b = current_order
              ELSE ~Better(b, Visible(current_layout), All(current_layout))
    /\ (pc = "reverse" /\ pc' = "random_init") =>
          IF tried' = tried THEN Reverse(current_order) = current_order
          ELSE ~Better(Reverse(current_order), Visible(current_layout), All(current_layout))

\* an accepted candidate ends the visit
AcceptEndsVisit ==
    (InVisit /\ accepts' # accepts) =>
        (accepts' = accepts + 1 /\ pc' = "group" /\ gi' = gi + 1)

\* the random move: 5 draws, the best of them kept while strictly better than
\* the best before, and accepted at the end if strictly better than the
\* current layout
RandomRule ==
    /\ (pc = "random" /\ pc' = "random") =>
          /\ tries' = tries + 1
          /\ \/ /\ best_random_layout' = best_random_layout
                /\ best_random_visible' = best_random_visible
                /\ best_random_all' = best_random_all
             \/ \E p \in Perms(current_order) :
                   /\ Better(p, best_random_visible, best_random_all)
                   /\ best_random_layout' = Candidate(p).layout
                   /\ best_random_visible' = Visible(Candidate(p).layout)
                   /\ best_random_all' = All(Candidate(p).layout)
    /\ (pc = "random" /\ pc' = "group") =>
          /\ tries = 5
          /\ IF LexLT(best_random_visible, best_random_all,
                      current_visible_crossings, current_all_crossings)
             THEN current_layout' = best_random_layout /\ accepts' = accepts + 1
             ELSE current_layout' = current_layout /\ accepts' = accepts

\* the order of a group changes only by the move that ends its own visit
\* (and a round visits the groups one after the other)
OncePerRound ==
    /\ \A g \in Range(Groups) :
          Filter(current_layout', Range(M.children[g]))
             # Filter(current_layout, Range(M.children[g])) =>
             (InVisit /\ Groups[gi] = g /\ gi' = gi + 1 /\ pc' = "group")
    /\ (InVisit /\ pc' # "while" /\ pc' # "done") => gi' \in {gi, gi + 1}

-----------------------------------------------------------------------------
(* The acceptance rule *)

\* the counts kept beside a layout are the oracle's counts on it
CountsRecorded ==
    /\ InOptimizer =>
          /\ current_visible_crossings = Visible(current_layout)
          /\ current_all_crossings = All(current_layout)
    /\ pc = "random" =>
          /\ best_random_visible = Visible(best_random_layout)
          /\ best_random_all = All(best_random_layout)

\* the step installs the candidate with order p as the current layout
Installs(p) ==
    /\ current_layout' = Candidate(p).layout
    /\ accepts' = accepts + 1

\* the barycenter and the reversal candidate, when they differ from the
\* current order, are accepted exactly when strictly better than the current
\* layout
DirectRule ==
    /\ (pc = "group" /\ gi <= Len(Groups) /\ pc' # "done") =>
          LET b == barycenter_ordering(M, leaf_map, Siblings, current_layout)
          IN  b # current_order =>
                (Installs(b) <=>
                    Better(b, Visible(current_layout), All(current_layout)))
    /\ (pc = "reverse" /\ pc' # "done") =>
          LET r == Reverse(current_order)
          IN  r # current_order =>
                (Installs(r) <=>
                    Better(r, Visible(current_layout), All(current_layout)))

\* the permutation the seeded generator draws in this state
Drawn == CHOOSE p \in random_sample(rng, current_order) : TRUE

\* a draw is being evaluated: a permutation other than the current order,
\* whose layout is not the best random layout already
DrawEvaluated ==
    /\ pc = "random" /\ tries < 5 /\ rng # 0
    /\ pc' = "random"
    /\ Drawn # current_order
    /\ Candidate(Drawn).layout # best_random_layout

\* the step keeps the drawn candidate as the best random layout
Keeps ==
    /\ best_random_layout' = Candidate(Drawn).layout
    /\ best_random_visible' = Visible(Candidate(Drawn).layout)
    /\ best_random_all' = All(Candidate(Drawn).layout)

\* the best random layout is installed at the end exactly when it is strictly
\* better than the current layout
DecideRule ==
    (pc = "random" /\ pc' = "group") =>
        IF LexLT(best_random_visible, best_random_all,
                 Visible(current_layout), All(current_layout))
        THEN current_layout' = best_random_layout /\ accepts' = accepts + 1
        ELSE current_layout' = current_layout /\ accepts' = accepts

(* C23: the acceptance rule is applied uniformly to every candidate the     *)
(* optimizer evaluates, barycenter, reversal and each random permutation:   *)
(* the candidate is accepted if and only if its visible count is strictly   *)
(* lower than the current layout's, or equal with a strictly lower all      *)
(* count; the counts recorded for the current layout are the oracle's.      *)
C23_UniformAcceptance ==
    [][/\ CountsRecorded
       /\ DirectRule
       /\ DrawEvaluated =>
             (Keeps <=> Better(Drawn, Visible(current_layout), All(current_layout)))
       /\ DecideRule]_vars

(* C23 as it holds: the barycenter and the reversal candidate are accepted  *)
(* if and only if strictly better than the current layout; a random         *)
(* permutation is kept if and only if strictly better than the best random  *)
(* layout so far (at first the current layout), so only if better than the  *)
(* current layout, and the best one is accepted at the end if and only if   *)
(* strictly better than the current layout; the recorded counts are the     *)
(* oracle's.                                                                *)
C23_AcceptanceAgainstBest ==
    [][/\ CountsRecorded
       /\ DirectRule
       /\ DrawEvaluated =>
             /\ Keeps <=> Better(Drawn, best_random_visible, best_random_all)
             /\ Keeps => Better(Drawn, Visible(current_layout), All(current_layout))
             /\ ~Keeps => UNCHANGED <<best_random_layout, best_random_visible,
                                     best_random_all>>
       /\ DecideRule]_vars

\* the case of C23: a second random permutation better than the current
\* layout arrives when the best random layout is already as good, and a
\* random layout is accepted
C23_Witness ==
    /\ pc = "random" /\ rng # 0 /\ tries \in 1..4
    /\ Drawn # current_order
    /\ Better(Drawn, Visible(current_layout), All(current_layout))
    /\ ~Better(Drawn, best_random_visible, best_random_all)
    /\ Candidate(Drawn).layout # best_random_layout

-----------------------------------------------------------------------------
(* Hierarchy edges and content edges, as declared and as collected *)

GraphForm == "graph" \in DOMAIN data

\* the node ids, the parent references and the content edges of the input,
\* in either form
DeclaredNodes == IF GraphForm THEN Range(data.graph.nodes) ELSE NodeIds
DeclaredParent(x) == IF GraphForm THEN data.graph.nparent[x] ELSE ParentOf(x)
DeclaredEdges ==
    IF GraphForm
    THEN {<<e.u, e.v>> : e \in {f \in EdgeSet(data.graph) : f.type = "bottom"}}
    ELSE Range(data.edges)

\* the model has been built from the input
ModelBuilt == pc # "load"

\* some content edge runs from a parent to its own child
ContentEdgeOnHierarchy ==
    \E e \in DeclaredEdges : DeclaredParent(e[2]) = e[1]

(* C24: hierarchy edges and content edges are kept independently for both   *)
(* input forms: once the model is built, the children map holds exactly the *)
(* (parent, child) pairs of the parent references and the bottom-edge list  *)
(* exactly the declared content edges, also when a content edge runs from a *)
(* parent to its own child.                                                 *)
C24_EdgesKeptApart ==
    ModelBuilt =>
        /\ \A x \in DeclaredNodes :
              Range(M.children[x]) = {y \in DeclaredNodes : DeclaredParent(y) = x}
        /\ Range(M.bottom_edges) = DeclaredEdges

\* the same without a content edge from a parent to its own child
EdgesKeptApartOtherwise ==
    (ModelBuilt /\ ~ContentEdgeOnHierarchy) =>
        /\ \A x \in DeclaredNodes :
              Range(M.children[x]) = {y \in DeclaredNodes : DeclaredParent(y) = x}
        /\ Range(M.bottom_edges) = DeclaredEdges

\* JSON form: the content edge has taken the child out of the children map
ChildLost ==
    /\ ModelBuilt /\ ~GraphForm
    /\ \E e \in Range(M.bottom_edges) :
          DeclaredParent(e[2]) = e[1] /\ ~Contains(M.children[e[1]], e[2])

\* graph form: the hierarchy edge has taken the content edge out of the
\* bottom-edge list
ContentEdgeLost ==
    /\ ModelBuilt /\ GraphForm
    /\ \E e \in DeclaredEdges :
          DeclaredParent(e[2]) = e[1] /\ ~Contains(M.bottom_edges, e)

-----------------------------------------------------------------------------
(* Inputs that cannot be loaded (lines 32-48 and 87-90) *)

\* a path to no file, a path to a file that is not JSON, and values that are
\* neither a path nor a graph object
UnloadableInputs ==
    {[path |-> f] : f \in {"absent", "not_json"}}
    \cup {[value |-> v] : v \in {"none", "number", "list", "dict"}}

\* the status the load records for an input it cannot load
load_status(d) ==
    IF "value" \in DOMAIN d THEN "UNSUPPORTED_INPUT"
    ELSE IF d.path = "absent" THEN "FILE_NOT_FOUND"
    ELSE "JSON_LOAD_ERROR"

\* lines 37-40, 45-48 and 87-90: the status is recorded in results, then
\* _save_results(results, output_csv) is called.  _save_results is a local
\* name of the solve, bound by the def at line 519, which has not run yet:
\* the call raises UnboundLocalError, outside every try block (the one of
\* line 42 is already in its handler), so nothing is appended to the file
\* and nothing is returned.
LoadFails ==
    /\ pc = "load"
    /\ ~Loadable(data)
    /\ status' = load_status(data)
    /\ pc' = "raised"
    /\ UNCHANGED <<inputVars, walk, server, saved, oracleVars, seedVars, rng, runs, modelVars,
                   edgeBalance, initVars, curVars, loopVars, randVars, finalVars,
                   histVars>>

InitLoad == \E d \in UnloadableInputs \cup GraphDescriptions : InitWith(d)

NextLoad == Next \/ LoadFails

SpecLoad == InitLoad /\ [][NextLoad]_vars

\* the solve of an input that cannot be loaded is over
LoadRefused == ~Loadable(data) /\ pc # "load"

(* C25: given an input it cannot load (a path to no file, a file that is    *)
(* not valid JSON, a value that is neither a path nor a graph object) the   *)
(* solve records FILE_NOT_FOUND, JSON_LOAD_ERROR or UNSUPPORTED_INPUT in    *)
(* its results row and returns an empty ordering; no exception escapes.     *)
C25_LoadErrorsReported ==
    LoadRefused =>
        /\ pc = "done"
        /\ final_layout = <<>>
        /\ status = (IF "value" \in DOMAIN data THEN "UNSUPPORTED_INPUT"
                     ELSE IF data.path = "absent" THEN "FILE_NOT_FOUND"
                     ELSE "JSON_LOAD_ERROR")
        /\ saved = <<status>>

\* what happens instead: the exception escapes and no row is written
LoadErrorEscapes == LoadRefused => (pc = "raised" /\ saved = <<>>)

\* an input that loads has its row written when the solve returns
RowWritten == (Loadable(data) /\ pc = "done") => saved = <<status>>

\* the three cases
LoadRefusedCase == LoadRefused /\ status = "JSON_LOAD_ERROR"

-----------------------------------------------------------------------------
(* The web server (src/public/server.py): the graph files of GRAPH_DIR, the *)
(* order files of ORDER_DIR, the user index, and the handlers get_order and *)
(* upload_graph.  server.graphs is the set of graph file names (without     *)
(* ".json"), server.orders the set of order files, each <<instance, suffix>>*)
(* for the file instance + suffix + ".txt", server.index the list in        *)
(* user_index.json.  A stored order is written as <<"stored", instance,     *)
(* suffix>>.                                                                *)

\* a graph that ships with the server, and the names uploads can get
BundledGraphs == {"a"}
UploadNames == {"u1", "u2"}
Instances == BundledGraphs \cup UploadNames

\* MAX_USER_FILES, scaled down
MaxUserFiles == 1

Suffixes == {"_ilp", "_heuristic", "_hybrid"}

\* what a client can put in ?method=
RequestedMethods == {"input", "ilp", "ILP", "heuristic", "hybrid", "fast"}

\* method.lower()
lower(m) == IF m = "ILP" THEN "ilp" ELSE m

\* lines 371-377: the suffix for pre-computed files
suffix_of(method) ==
    IF method = "heuristic" THEN "_heuristic"
    ELSE IF method = "hybrid" THEN "_hybrid"
    ELSE "_ilp"

Answer(code, body, req) ==
    server' = [server EXCEPT !.request = req, !.response = [code |-> code, body |-> body],
                             !.written = FALSE]

\* what no handler of the server changes
ServerFrame ==
    UNCHANGED <<inputVars, walk, saved, oracleVars, seedVars, rng, runs, pc, status,
                modelVars, edgeBalance, initVars, curVars, loopVars, randVars,
                finalVars, histVars>>

\* get_order (lines 331-411) for ?method=m on an instance with a valid name.
\* solver is the outcome of the solver run, should it come to one:
\* "unavailable" (the import failed), "too_large" (more leaves than the ILP
\* limit), "failed" (no order) or "order"
GetOrder(instance, m, solver) ==
    LET method == lower(m)
        req == [op |-> "order", instance |-> instance, method |-> m]
        file == <<instance, suffix_of(method)>>
    IN  IF method = "input"
        THEN IF instance \in server.graphs
             THEN Answer(200, [order |-> <<"input", instance>>, method |-> method], req)
             ELSE Answer(404, [error |-> "Graph not found for input order"], req)
        ELSE IF file \in server.orders
        THEN Answer(200, [order |-> <<"stored", file[1], file[2]>>, method |-> method], req)
        ELSE IF method \notin {"ilp", "heuristic", "hybrid"}
        THEN Answer(400, [error |-> "Invalid method"], req)
        ELSE IF solver = "unavailable"
        THEN Answer(500, [error |-> "solver is not available"], req)
        ELSE IF method = "ilp" /\ instance \notin server.graphs
        THEN Answer(500, [error |-> "Failed to inspect graph"], req)
        ELSE IF method = "ilp" /\ solver = "too_large"
        THEN Answer(400, [error |-> "ILP solver node count limit exceeded"], req)
        ELSE IF instance \notin server.graphs \/ solver = "failed"
        THEN Answer(500, [error |-> "solver failed"], req)
        ELSE server' = [server EXCEPT
                           !.orders = @ \cup {file},
                           !.request = req,
                           !.written = FALSE,
                           !.response = [code |-> 200,
                                         body |-> [order |-> <<"stored", file[1], file[2]>>,
                                                   method |-> method]]]

ServeOrder ==
    /\ pc = "serve"
    /\ \E instance \in Instances, m \in RequestedMethods,
          solver \in {"unavailable", "too_large", "failed", "order"} :
          GetOrder(instance, m, solver)
    /\ ServerFrame

\* the index without its oldest entries, down to limit entries, and the
\* entries dropped (lines 171-190)
Kept(index, limit) ==
    IF Len(index) > limit THEN SubSeq(index, Len(index) - limit + 1, Len(index))
    ELSE index
Dropped(index, limit) ==
    IF Len(index) > limit THEN {index[i] : i \in 1..(Len(index) - limit)} ELSE {}

\* upload_graph (lines 421-501).  kind is what the request carries: nothing
\* usable (one of the answers 400 of lines 423-459) or a valid graph file;
\* filename is the unique name drawn for it (lines 462-472: one no graph file
\* has); fault is what goes wrong in lines 479-481: "none", "save" (file.save
\* raises and leaves no file), "partial" (file.save raises and leaves a
\* partial file) or "index" (save_user_index raises at the end of
\* enforce_storage_limit_with_index, the index file left as it was or, opened
\* for writing and truncated, unreadable, which load_user_index reads as [])
UploadGraph(kind, filename, fault, truncated) ==
    LET req == [op |-> "upload", kind |-> kind, filename |-> filename, fault |-> fault]
        index == Append(server.index, filename)
        old == Dropped(index, MaxUserFiles)
        \* after file.save and the deletions of enforce_storage_limit_with_index
        graphs == (server.graphs \cup {filename}) \ old
        orders == {f \in server.orders : f[1] \notin old}
        \* lines 483-489: the cleanup removes the order file unique_name + ".txt"
        \* first; os.remove raises when there is none, and then the graph file
        \* stays
        cleaned(gs) == IF <<filename, "">> \in server.orders THEN gs \ {filename} ELSE gs
        cleaned_orders(os) == os \ {<<filename, "">>}
    IN  IF kind # "valid"
        THEN Answer(400, [success |-> FALSE, message |-> kind], req)
        ELSE IF fault = "none"
        THEN server' = [graphs |-> graphs, orders |-> orders,
                        index |-> Kept(index, MaxUserFiles), written |-> TRUE,
                        request |-> req,
                        response |-> [code |-> 201,
                                      body |-> [success |-> TRUE, filename |-> filename]]]
        ELSE IF fault = "save"
        THEN server' = [server EXCEPT
                           !.request = req, !.written = FALSE,
                           !.response = [code |-> 500,
                                         body |-> [success |-> FALSE,
                                                   message |-> "Failed to save file"]]]
        ELSE IF fault = "partial"
        THEN server' = [server EXCEPT
                           !.graphs = cleaned(@ \cup {filename}),
                           !.orders = cleaned_orders(@),
                           !.request = req, !.written = TRUE,
                           !.response = [code |-> 500,
                                         body |-> [success |-> FALSE,
                                                   message |-> "Failed to save file"]]]
        ELSE server' = [graphs |-> cleaned(graphs), orders |-> cleaned_orders(orders),
                        index |-> IF truncated THEN <<>> ELSE server.index,
                        written |-> TRUE,
                        request |-> req,
                        response |-> [code |-> 500,
                                      body |-> [success |-> FALSE,
                                                message |-> "Failed to save file"]]]

ServeUpload ==
    /\ pc = "serve"
    /\ \E kind \in {"no_file", "no_name", "not_json", "invalid_json", "invalid_graph", "valid"},
          filename \in UploadNames \ server.graphs,
          fault \in {"none", "save", "partial", "index"},
          truncated \in BOOLEAN :
          UploadGraph(kind, filename, fault, truncated)
    /\ ServerFrame

\* the server starts with its bundled graph, any of that graph's order files
\* stored, and no upload yet
InitServer ==
    /\ data = [nodes |-> <<>>, edges |-> <<>>]
    /\ pc = "serve"
    /\ M = EmptyModel(EmptyGraph)
    /\ status = "SUCCESS"
    /\ edgeBalance = <<>>
    /\ descendant_map = <<>> /\ leaf_map = <<>>
    /\ initial_layout = <<>> /\ initial_all_crossings = 0 /\ initial_visible_crossings = 0
    /\ current_layout = <<>> /\ current_all_crossings = 0 /\ current_visible_crossings = 0
    /\ improved = FALSE /\ iteration = 0 /\ gi = 0
    /\ best_random_layout = <<>> /\ best_random_all = 0 /\ best_random_visible = 0
    /\ tries = 0
    /\ final_layout = <<>> /\ final_all_crossings = 0 /\ final_visible_crossings = 0
    /\ visits = <<>> /\ accepts = 0 /\ tried = <<>>
    /\ runs = 0 /\ walk = <<>> /\ saved = <<>>
    /\ given_layout = <<>> /\ given_edges = <<>> /\ counted = NotCounted
    /\ Unseeded
    /\ \E stored \in SUBSET (BundledGraphs \X Suffixes) :
          server = [graphs |-> BundledGraphs, orders |-> stored, index |-> <<>>,
                    written |-> FALSE, request |-> <<>>, response |-> <<>>]

NextServer == ServeOrder \/ ServeUpload

SpecServer == InitServer /\ [][NextServer]_vars

\* the last request was a get_order with a method that is none of input,
\* ilp, heuristic, hybrid
InvalidMethodAsked ==
    /\ server.request # <<>>
    /\ server.request.op = "order"
    /\ lower(server.request.method) \notin {"input", "ilp", "heuristic", "hybrid"}

(* C26: get_order answers 400 'Invalid method' for every requested method   *)
(* other than input, ilp, heuristic and hybrid, in every state of the       *)
(* stored order files; it never returns an ordering for such a method.      *)
C26_InvalidMethodRefused ==
    InvalidMethodAsked =>
        /\ server.response.code = 400
        /\ server.response.body = [error |-> "Invalid method"]

\* the same where no ILP order file is stored for the instance
InvalidMethodRefusedUnlessStored ==
    (InvalidMethodAsked /\ <<server.request.instance, "_ilp">> \notin server.orders) =>
        /\ server.response.code = 400
        /\ server.response.body = [error |-> "Invalid method"]

\* an invalid method is answered with the stored ILP order
StoredOrderForInvalidMethod ==
    /\ InvalidMethodAsked
    /\ server.response.code = 200
    /\ server.response.body.order = <<"stored", server.request.instance, "_ilp">>

\* the last request was an upload that failed after the graph file had been
\* written
UploadFailedAfterWrite ==
    /\ server.request # <<>>
    /\ server.request.op = "upload"
    /\ server.response.code = 500
    /\ server.written

(* C27: when an upload fails after the graph file has been written,         *)
(* upload_graph removes the written file before answering 500: after the    *)
(* failed upload the graph file is not on disk, so no graph file is on disk *)
(* that is missing from the user index.                                     *)
C27_FailedUploadCleaned ==
    UploadFailedAfterWrite =>
        /\ server.request.filename \notin server.graphs
        /\ \A g \in server.graphs \cap UploadNames : Contains(server.index, g)

\* an upload that fails before anything is written leaves no file
FailedSaveLeavesNothing ==
    (/\ server.request # <<>> /\ server.request.op = "upload"
     /\ server.response.code = 500 /\ ~server.written) =>
        server.request.filename \notin server.graphs

\* the retention index failed on a saved file, which stays outside the index
IndexFailedCase ==
    /\ UploadFailedAfterWrite /\ server.request.fault = "index"
    /\ server.request.filename \in server.graphs
    /\ ~Contains(server.index, server.request.filename)

=============================================================================
